---- MODULE Spec2Model ----
(***************************************************************************)
(* Verification model of godot-uml: the PlantUML lexer/parser front end,   *)
(* the public facade (Parse / RenderDiagram), the URL codec, the Sugiyama  *)
(* layout engine, the theme resolver, the HTTP service, the command-line   *)
(* tool and the font cache.                                                *)
(*                                                                         *)
(* Each component has its own specification (SpecParser, SpecCodec,        *)
(* SpecLayout, SpecTheme, SpecServer, SpecCLI, SpecFont); the variables of *)
(* the other components stay at their idle values.                         *)
(***************************************************************************)
EXTENDS Integers, Sequences, FiniteSets, TLC

VARIABLES
    \* ---- lexer / parser / facade ----
    input,      \* the source text, as a sequence of lexemes
    readErr,    \* TRUE when the io.Reader handed to Parse fails
    tokens,     \* Parser.tokens (1-based; the last one is the EOF token)
    pos,        \* Parser.pos    (1-based index of the current token)
    errors,     \* Parser.errors
    seqMode,    \* Parser.seqMode
    stack,      \* the active parse functions (parseDiagram, parsePackage, ...)
    ppc,        \* "init" | "parsing" | "parsed" | "rendered"
    handle,     \* the *Diagram returned by the facade's Parse: <<>> is nil, <<d>> points to d
    renderer,   \* the renderer RenderDiagram dispatched to
    \* ---- codec ----
    codec,
    \* ---- layout ----
    lay,
    \* ---- theme resolver ----
    res,
    \* ---- HTTP service ----
    srv,
    \* ---- command-line tool ----
    cli,
    \* ---- font cache ----
    font,
    \* ---- sequence renderer ----
    sq,
    \* ---- crossing package ----
    cr,
    \* ---- class renderer ----
    cls

pvars == <<input, readErr, tokens, pos, errors, seqMode, stack, ppc, handle, renderer>>
xvars == <<srv, cli, font, sq, cr, cls>>
vars == <<pvars, codec, lay, res, xvars>>

Nil == "nil"
Idle == [pc |-> "idle"]
\* The HTTP service, the command-line tool, the font cache, the sequence
\* renderer, the crossing package and the class renderer are not running.
OthersIdle == srv = Idle /\ cli = Idle /\ font = Idle /\ sq = Idle /\ cr = Idle /\ cls = Idle

(***************************************************************************)
(* Generic helpers                                                         *)
(***************************************************************************)
Max(a, b) == IF a > b THEN a ELSE b
Min(a, b) == IF a < b THEN a ELSE b

RECURSIVE SeqsUpTo(_, _)
SeqsUpTo(S, n) ==
    IF n = 0 THEN {<<>>}
    ELSE LET shorter == SeqsUpTo(S, n - 1)
         IN shorter \cup {Append(s, x) : s \in {t \in shorter : Len(t) = n - 1}, x \in S}

RECURSIVE Flatten(_)
Flatten(ss) == IF ss = <<>> THEN <<>> ELSE Head(ss) \o Flatten(Tail(ss))

(***************************************************************************)
(* Lexer (word granularity): every lexeme of the input becomes one token.  *)
(***************************************************************************)
\* keywords maps PlantUML keyword strings to their token types.
keywords ==
    [w \in {"class", "interface", "enum", "abstract", "extends", "implements",
            "package", "namespace", "as", "participant", "actor", "boundary",
            "control", "entity", "database", "collections", "queue",
            "activate", "deactivate", "return", "alt", "else", "end", "loop",
            "group", "note", "of", "over", "left", "right", "skinparam",
            "hide", "show", "title", "header", "footer"} |->
       CASE w = "class" -> "Class"
         [] w = "interface" -> "Interface"
         [] w = "enum" -> "Enum"
         [] w = "abstract" -> "Abstract"
         [] w = "extends" -> "Extends"
         [] w = "implements" -> "Implements"
         [] w = "package" -> "Package"
         [] w = "namespace" -> "Namespace"
         [] w = "as" -> "As"
         [] w = "participant" -> "Participant"
         [] w = "actor" -> "Actor"
         [] w = "boundary" -> "Boundary"
         [] w = "control" -> "Control"
         [] w = "entity" -> "Entity"
         [] w = "database" -> "Database"
         [] w = "collections" -> "Collections"
         [] w = "queue" -> "Queue"
         [] w = "activate" -> "Activate"
         [] w = "deactivate" -> "Deactivate"
         [] w = "return" -> "Return"
         [] w = "alt" -> "Alt"
         [] w = "else" -> "Else"
         [] w = "end" -> "End"
         [] w = "loop" -> "Loop"
         [] w = "group" -> "Group"
         [] w = "note" -> "Note"
         [] w = "of" -> "Of"
         [] w = "over" -> "Over"
         [] w = "left" -> "Left"
         [] w = "right" -> "Right"
         [] w = "skinparam" -> "Skinparam"
         [] w = "hide" -> "Hide"
         [] w = "show" -> "Show"
         [] w = "title" -> "Title"
         [] w = "header" -> "Header"
         [] w = "footer" -> "Footer"]

\* Lexemes that are runs of letters (readIdentOrKeyword handles them).
LetterWords == DOMAIN keywords \cup
    {"A", "B", "P", "par", "break", "ref", "autonumber", "classBackgroundColor", "red"}
\* Lexemes readDashStart / readLeftAngleStart / readArrowOrDots turn into arrows.
ArrowWords == {"->", "<-", "<->", "-->", "--", "..>", "..."}

\* readIdentOrKeyword: a letter run is a keyword if the table has it, else Ident.
readIdentOrKeyword(w) == IF w \in DOMAIN keywords THEN keywords[w] ELSE "Ident"

\* NextToken: the token type of one lexeme.
NextToken(w) ==
    CASE w = "\n" -> "Newline"
      [] w = "@startuml" -> "StartUML"
      [] w = "@enduml" -> "EndUML"
      [] w = "{" -> "LBrace"
      [] w = "}" -> "RBrace"
      [] w = ":" -> "Colon"
      [] w = "=" -> "Equals"
      [] w = "+" -> "Plus"
      [] w = "1" -> "Number"
      [] w \in ArrowWords -> "Arrow"
      [] w \in LetterWords -> readIdentOrKeyword(w)
      [] OTHER -> "Error"

\* Lexer.line when the i-th lexeme starts: 1 + the newlines read before it.
RECURSIVE LineAt(_, _)
LineAt(ws, i) ==
    IF i <= 1 THEN 1
    ELSE LineAt(ws, i - 1) + (IF ws[i - 1] = "\n" THEN 1 ELSE 0)

\* Tokenize: all tokens of the input plus the final EOF token.  readChar
\* bumps the line counter only when it reads a character after a newline, so
\* the EOF token carries the line on which the last lexeme started.
Tokenize(ws) ==
    [i \in 1..(Len(ws) + 1) |->
        IF i <= Len(ws)
        THEN [type |-> NextToken(ws[i]), lit |-> ws[i], line |-> LineAt(ws, i), idx |-> i]
        ELSE [type |-> "EOF", lit |-> "", line |-> LineAt(ws, Len(ws)), idx |-> i]]

(***************************************************************************)
(* Parser: cursor primitives                                               *)
(***************************************************************************)
current(p) ==
    IF p > Len(tokens) THEN [type |-> "EOF", lit |-> "", line |-> 0, idx |-> 0]
    ELSE tokens[p]

peek(p) ==
    IF p + 1 > Len(tokens) THEN [type |-> "EOF", lit |-> "", line |-> 0, idx |-> 0]
    ELSE tokens[p + 1]

advance(p) == IF p <= Len(tokens) THEN p + 1 ELSE p

\* addError appends one diagnostic carrying the position of token tok.
addError(tok, msg) == [line |-> tok.line, idx |-> tok.idx, msg |-> msg]

RECURSIVE skipNewlines(_)
skipNewlines(p) ==
    IF current(p).type = "Newline" THEN skipNewlines(advance(p)) ELSE p

RECURSIVE readRestOfLine(_)
readRestOfLine(p) ==
    IF current(p).type \notin {"Newline", "EOF"} THEN readRestOfLine(advance(p)) ELSE p

\* The literals readRestOfLine collects, and their strings.Join with " ".
RECURSIVE restOfLineParts(_)
restOfLineParts(p) ==
    IF current(p).type \notin {"Newline", "EOF"}
    THEN <<current(p).lit>> \o restOfLineParts(advance(p)) ELSE <<>>

\* Texts of more than one literal do not occur in the inputs of this model.
joinSpace(parts) ==
    CASE parts = <<>> -> ""
      [] Len(parts) = 1 -> parts[1]
      [] OTHER -> "<joined text>"

restOfLineText(p) == joinSpace(restOfLineParts(p))

\* A mutation of skipToNextLine: only the offending token is skipped.
skipToNextLineOneToken(p) == advance(p)

skipToNextLine(p) ==
    LET q == readRestOfLine(p)
    IN IF current(q).type = "Newline" THEN advance(q) ELSE q

consumeOptionalNewline(p) == IF current(p).type = "Newline" THEN advance(p) ELSE p

\* An AST statement.  name/to/arrow/flag/body/elses are used as the kind needs.
Stmt(kind, tok, name, to, arrow, flag) ==
    [kind |-> kind, line |-> tok.line, name |-> name, to |-> to, arrow |-> arrow,
     flag |-> flag, body |-> <<>>, elses |-> <<>>]

\* The result of a parse function: new cursor, diagnostics, statements (0 or 1).
R(p, errs, st) == [p |-> p, errs |-> errs, st |-> st]

(***************************************************************************)
(* Parser: class-family statements                                         *)
(***************************************************************************)
RECURSIVE readDotted(_, _)
readDotted(p, name) ==
    IF current(p).type = "Dot" /\ peek(p).type = "Ident"
    THEN readDotted(advance(advance(p)), name \o "." \o peek(p).lit)
    ELSE [p |-> p, name |-> name]

readClassName(p) ==
    IF current(p).type = "String" THEN [p |-> advance(p), name |-> current(p).lit]
    ELSE readDotted(advance(p), current(p).lit)

RECURSIVE stereotypeText(_)
stereotypeText(p) ==
    IF current(p).type \notin {"RAngle", "Newline", "EOF"} THEN stereotypeText(advance(p)) ELSE p

tryStereotype(p) ==
    IF current(p).type # "LAngle" \/ peek(p).type # "LAngle" THEN p
    ELSE LET q == stereotypeText(advance(advance(p)))
             q1 == IF current(q).type = "RAngle" THEN advance(q) ELSE q
         IN IF current(q1).type = "RAngle" THEN advance(q1) ELSE q1

tryVisibility(p) ==
    IF current(p).type \in {"Plus", "Minus", "Hash", "Tilde"} THEN advance(p) ELSE p

tryModifier(p) ==
    IF current(p).type \in {"Static", "Field", "Method"} THEN advance(p) ELSE p

RECURSIVE readTypeUntilNewline(_)
readTypeUntilNewline(p) ==
    IF current(p).type \notin {"Newline", "EOF", "RBrace"}
    THEN readTypeUntilNewline(advance(p)) ELSE p

RECURSIVE methodParams(_)
methodParams(p) ==
    IF current(p).type \notin {"RParen", "Newline", "EOF"} THEN methodParams(advance(p)) ELSE p

parseMethodAfterName(p) ==
    LET q == methodParams(advance(p))
        q1 == IF current(q).type = "RParen" THEN advance(q) ELSE q
        q2 == IF current(q1).type = "Colon" THEN readTypeUntilNewline(advance(q1)) ELSE q1
    IN consumeOptionalNewline(q2)

\* parseMember: [p, n] with n = 1 when a member was produced, 0 for nil.
parseMember(p) ==
    LET q == tryModifier(tryVisibility(p))
    IN IF current(q).type \in {"Newline", "RBrace", "EOF"} THEN [p |-> q, n |-> 0]
       ELSE IF current(q).type = "Ident"
       THEN LET q1 == advance(q)
            IN IF current(q1).type = "LParen"
               THEN [p |-> parseMethodAfterName(q1), n |-> 1]
               ELSE LET q2 == IF current(q1).type = "Colon"
                              THEN readTypeUntilNewline(advance(q1)) ELSE q1
                    IN [p |-> consumeOptionalNewline(q2), n |-> 1]
       ELSE \* the rest of the line is the member name; its literals are not empty
            [p |-> readRestOfLine(q), n |-> 1]

RECURSIVE classBodyLoop(_, _)
classBodyLoop(p, n) ==
    IF current(p).type \in {"RBrace", "EOF"} THEN [p |-> p, n |-> n]
    ELSE LET q == skipNewlines(p)
         IN IF current(q).type \in {"RBrace", "EOF"} THEN [p |-> q, n |-> n]
            ELSE IF current(q).type \in {"LineComment", "BlockComment"}
            THEN classBodyLoop(advance(q), n)
            ELSE LET m == parseMember(q) IN classBodyLoop(m.p, n + m.n)

\* parseClassBody: [p, errs, n] with n the number of members.
parseClassBody(p) ==
    LET b == classBodyLoop(skipNewlines(advance(p)), 0)
    IN IF current(b.p).type = "RBrace"
       THEN [p |-> advance(b.p), errs |-> <<>>, n |-> b.n]
       ELSE [p |-> b.p, errs |-> <<addError(current(b.p), "expected closing }")>>, n |-> b.n]

optBody(p) ==
    IF current(p).type = "LBrace" THEN parseClassBody(p)
    ELSE [p |-> p, errs |-> <<>>, n |-> 0]

optAlias(p) ==
    IF current(p).type = "As"
    THEN IF current(advance(p)).type = "Ident" THEN advance(advance(p)) ELSE advance(p)
    ELSE p

parseClassDef(p, abstract) ==
    LET tok == current(p)
        q == advance(p)
    IN IF current(q).type \notin {"Ident", "String"}
       THEN R(skipToNextLine(q), <<addError(current(q), "expected class name")>>,
              <<Stmt("ClassDef", tok, "", "", "", abstract)>>)
       ELSE LET nm == readClassName(q)
                q1 == optAlias(tryStereotype(nm.p))
            IN IF current(q1).type \in {"Extends", "Implements"}
               THEN R(skipToNextLine(q1), <<>>, <<Stmt("ClassDef", tok, nm.name, "", "", abstract)>>)
               ELSE LET b == optBody(q1)
                    IN R(b.p, b.errs, <<Stmt("ClassDef", tok, nm.name, "", "", abstract)>>)

parseAbstract(p) ==
    LET tok == current(p)
        q == advance(p)
    IN IF current(q).type = "Class" THEN parseClassDef(q, TRUE)
       ELSE LET nm == IF current(q).type \in {"Ident", "String"} THEN readClassName(q)
                      ELSE [p |-> q, name |-> ""]
                b == optBody(tryStereotype(nm.p))
            IN R(b.p, b.errs, <<Stmt("ClassDef", tok, nm.name, "", "", TRUE)>>)

parseInterfaceDef(p) ==
    LET tok == current(p)
        q == advance(p)
    IN IF current(q).type \notin {"Ident", "String"}
       THEN R(skipToNextLine(q), <<addError(current(q), "expected interface name")>>,
              <<Stmt("InterfaceDef", tok, "", "", "", FALSE)>>)
       ELSE LET nm == readClassName(q)
                b == optBody(optAlias(tryStereotype(nm.p)))
            IN R(b.p, b.errs, <<Stmt("InterfaceDef", tok, nm.name, "", "", FALSE)>>)

parseEnumDef(p) ==
    LET tok == current(p)
        q == advance(p)
    IN IF current(q).type \notin {"Ident", "String"}
       THEN R(skipToNextLine(q), <<addError(current(q), "expected enum name")>>,
              <<Stmt("EnumDef", tok, "", "", "", FALSE)>>)
       ELSE LET nm == readClassName(q)
                b == optBody(tryStereotype(nm.p))
            IN R(b.p, b.errs, <<Stmt("EnumDef", tok, nm.name, "", "", FALSE)>>)

(***************************************************************************)
(* Parser: directives, notes and sequence-family statements                *)
(***************************************************************************)
parseComment(p) == R(advance(p), <<>>, <<Stmt("Comment", current(p), current(p).lit, "", "", FALSE)>>)

\* parseTitle / parseHeader / parseFooter: a Comment with the prefixed text.
parseTitle(p) ==
    R(readRestOfLine(advance(p)), <<>>, <<Stmt("Comment", current(p), current(p).lit, "", "", FALSE)>>)

\* parseSkinparam: ast.Skinparam{Name, Value}; the slot "to" holds Value.
parseSkinparam(p) ==
    LET q == advance(p)
        hasName == current(q).type = "Ident"
        v == IF hasName THEN advance(q) ELSE q
    IN R(readRestOfLine(v), <<>>,
         <<Stmt("Skinparam", current(p), IF hasName THEN current(q).lit ELSE "",
                restOfLineText(v), "", FALSE)>>)

parseHideShow(p, isHide) ==
    R(readRestOfLine(advance(p)), <<>>, <<Stmt("HideShow", current(p), "", "", "", isHide)>>)

RECURSIVE noteTargets(_)
noteTargets(p) ==
    IF current(p).type = "Comma"
    THEN LET q == advance(p)
         IN noteTargets(IF current(q).type \in {"Ident", "String"} THEN advance(q) ELSE q)
    ELSE p

\* readNoteTarget: [p, name]; of a comma list the model keeps the first name.
readNoteTarget(p) ==
    IF current(p).type \in {"Ident", "String"}
    THEN [p |-> noteTargets(advance(p)), name |-> current(p).lit]
    ELSE [p |-> p, name |-> ""]

RECURSIVE readMultiLineNote(_)
readMultiLineNote(p) ==
    IF current(p).type \in {"EOF", "EndUML"} THEN p
    ELSE IF current(p).type = "Newline" THEN readMultiLineNote(advance(p))
    ELSE IF current(p).type = "End"
    THEN LET q == advance(p)
         IN skipToNextLine(IF current(q).type = "Note" THEN advance(q) ELSE q)
    ELSE readMultiLineNote(readRestOfLine(p))

parseNote(p) ==
    LET q == advance(p)
        t == IF current(q).type \in {"Left", "Right"}
             THEN LET q1 == advance(q)
                  IN readNoteTarget(IF current(q1).type = "Of" THEN advance(q1) ELSE q1)
             ELSE IF current(q).type = "Over" THEN readNoteTarget(advance(q))
             ELSE [p |-> q, name |-> ""]
        e == IF current(t.p).type = "Colon" THEN readRestOfLine(advance(t.p))
             ELSE readMultiLineNote(t.p)
    IN R(e, <<>>, <<Stmt("Note", current(p), t.name, "", "", FALSE)>>)

parseParticipant(p, kind) ==
    LET q == advance(p)
        hasName == current(q).type \in {"String", "Ident"}
        q1 == IF hasName THEN advance(q) ELSE q
        q2 == IF current(q1).type = "As"
              THEN IF current(advance(q1)).type \in {"Ident", "String"}
                   THEN advance(advance(q1)) ELSE advance(q1)
              ELSE q1
    IN R(skipToNextLine(q2), <<>>,
         <<Stmt("Participant", current(p), IF hasName THEN current(q).lit ELSE "", "", kind, FALSE)>>)

parseActivate(p, deactivate) ==
    LET q == advance(p)
        hasTarget == current(q).type \in {"Ident", "String"}
    IN R(skipToNextLine(IF hasTarget THEN advance(q) ELSE q), <<>>,
         <<Stmt("Activate", current(p), IF hasTarget THEN current(q).lit ELSE "", "", "", deactivate)>>)

parseReturn(p) ==
    R(readRestOfLine(advance(p)), <<>>, <<Stmt("Return", current(p), "", "", "", FALSE)>>)

parseAutonumber(p) ==
    LET q == advance(p)
        hasStart == current(q).type = "Number"
    IN R(skipToNextLine(IF hasStart THEN advance(q) ELSE q), <<>>,
         <<Stmt("Autonumber", current(p), IF hasStart THEN current(q).lit ELSE "", "", "", FALSE)>>)

RECURSIVE dividerText(_)
dividerText(p) ==
    IF current(p).type \in {"Newline", "EOF"} THEN p
    ELSE IF current(p).type = "Equals"
    THEN IF current(advance(p)).type = "Equals" THEN advance(advance(p))
         ELSE dividerText(advance(p))
    ELSE dividerText(advance(p))

parseDivider(p) ==
    LET q == advance(p)
        q1 == IF current(q).type = "Equals" THEN advance(q) ELSE q
    IN R(dividerText(q1), <<>>, <<Stmt("Divider", current(p), "", "", "", FALSE)>>)

\* isDelayArrow: the literal is made of dots only and has at least three.
isDelayArrow(lit) == lit \in {"...", "...."}

RECURSIVE delayText(_)
delayText(p) ==
    IF current(p).type \in {"Newline", "EOF"} THEN p
    ELSE IF current(p).type = "Arrow" /\ isDelayArrow(current(p).lit) THEN advance(p)
    ELSE delayText(advance(p))

parseDelay(p) ==
    R(delayText(advance(p)), <<>>, <<Stmt("Delay", current(p), "", "", "", FALSE)>>)

\* isDashedArrow: the shaft of the arrow holds ".." or "--".
isDashedArrow(arrow) == arrow \in {"-->", "--", "..>", "<--", "...", "...."}

\* parseMessage: p is at the arrow, tok is the sender identifier.
parseMessage(p, tok) ==
    LET arrow == current(p).lit
        q == advance(p)
        hasTo == current(q).type \in {"Ident", "String"}
        q1 == IF hasTo THEN advance(q) ELSE q
        q2 == IF current(q1).type = "Plus"
              THEN IF current(advance(q1)).type = "Plus" THEN advance(advance(q1)) ELSE advance(q1)
              ELSE IF current(q1).type = "Arrow" /\ current(q1).lit = "--" THEN advance(q1)
              ELSE q1
        q3 == IF current(q2).type = "Colon" THEN readRestOfLine(advance(q2))
              ELSE skipToNextLine(q2)
    IN R(q3, <<>>, <<Stmt("Message", tok, tok.lit, IF hasTo THEN current(q).lit ELSE "",
                          arrow, isDashedArrow(arrow))>>)

\* parseSequenceIdentStatement whose recovery leaves the cursor where it was.
parseSequenceIdentStatementNoSkip(p) ==
    LET tok == current(p)
        q == advance(p)
    IN IF current(q).type = "Arrow" THEN parseMessage(q, tok)
       ELSE R(p, <<addError(tok, "unexpected identifier")>>, <<>>)

parseSequenceIdentStatement(p) ==
    LET tok == current(p)
        q == advance(p)
    IN IF current(q).type = "Arrow" THEN parseMessage(q, tok)
       ELSE R(skipToNextLine(q), <<addError(tok, "unexpected identifier")>>, <<>>)

\* parseRelationship: p is at the arrow.
parseRelationship(p, tok, leftName) ==
    LET arrow == current(p).lit
        q == advance(p)
        q1 == IF current(q).type = "String" THEN advance(q) ELSE q
        rn == IF current(q1).type \in {"Ident", "String"} THEN readClassName(q1)
              ELSE [p |-> q1, name |-> ""]
        q2 == IF current(rn.p).type = "Colon" THEN readRestOfLine(advance(rn.p)) ELSE rn.p
    IN R(q2, <<>>, <<Stmt("Relationship", tok, leftName, rn.name, arrow, FALSE)>>)

\* parseIdentStatement without the sequence-mode branch.
parseIdentStatementClassOnly(p, seq) ==
    LET tok == current(p)
        ln == readClassName(p)
        q == IF current(ln.p).type = "String" THEN advance(ln.p) ELSE ln.p
    IN IF current(q).type = "Arrow" THEN parseRelationship(q, tok, ln.name)
       ELSE R(skipToNextLine(q), <<>>, <<Stmt("Comment", tok, ln.name, "", "", FALSE)>>)

parseIdentStatement(p, seq) ==
    IF seq THEN parseSequenceIdentStatement(p)
    ELSE LET tok == current(p)
             ln == readClassName(p)
             q == IF current(ln.p).type = "String" THEN advance(ln.p) ELSE ln.p
         IN IF current(q).type = "Arrow" THEN parseRelationship(q, tok, ln.name)
            ELSE R(skipToNextLine(q), <<>>, <<Stmt("Comment", tok, ln.name, "", "", FALSE)>>)

(***************************************************************************)
(* Parser: statement dispatch (parseStatementInContext)                    *)
(***************************************************************************)
ParticipantTypes == {"Participant", "Actor", "Boundary", "Control", "Entity",
                     "Database", "Collections", "Queue"}
FragmentTypes == {"Alt", "Loop", "Par", "Break", "Ref", "Group"}
PackageTypes == {"Package", "Namespace"}
\* The cases of parseStatementInContext that set p.seqMode = true.
SeqModeTypes == ParticipantTypes \cup FragmentTypes \cup
                {"Activate", "Deactivate", "Return", "Autonumber"}

\* The cases of parseStatementInContext other than fragments and packages.
parseSimpleStatement(p, inFragment, seq) ==
    LET tok == current(p)
        t == tok.type
    IN CASE t \in {"LineComment", "BlockComment"} -> parseComment(p)
         [] t \in {"Title", "Header", "Footer"} -> parseTitle(p)
         [] t = "Skinparam" -> parseSkinparam(p)
         [] t = "Hide" -> parseHideShow(p, TRUE)
         [] t = "Show" -> parseHideShow(p, FALSE)
         [] t = "Class" -> parseClassDef(p, FALSE)
         [] t = "Abstract" -> parseAbstract(p)
         [] t = "Interface" -> parseInterfaceDef(p)
         [] t = "Enum" -> parseEnumDef(p)
         [] t \in ParticipantTypes -> parseParticipant(p, t)
         [] t = "Activate" -> parseActivate(p, FALSE)
         [] t = "Deactivate" -> parseActivate(p, TRUE)
         [] t = "Return" -> parseReturn(p)
         [] t = "Autonumber" -> parseAutonumber(p)
         [] t = "Note" -> parseNote(p)
         [] t = "Equals" -> parseDivider(p)
         [] t = "Arrow" ->
              IF isDelayArrow(tok.lit) THEN parseDelay(p)
              ELSE R(skipToNextLine(p), <<addError(tok, "unexpected arrow")>>, <<>>)
         [] t = "Ident" -> parseIdentStatement(p, seq)
         [] t = "Error" -> R(skipToNextLine(p), <<addError(tok, "unexpected token")>>, <<>>)
         [] OTHER ->
              IF inFragment /\ t \in {"Else", "End"} THEN R(p, <<>>, <<>>)
              ELSE R(skipToNextLine(p), <<addError(tok, "unexpected")>>, <<>>)

(***************************************************************************)
(* Parser: the statement loops of parseDiagram, parsePackage,              *)
(* parseFragment and parseElsePart, one frame of `stack` per active call   *)
(***************************************************************************)
Frame(fn, node) == [fn |-> fn, node |-> node, stmts |-> <<>>, elses |-> <<>>]

Top == stack[Len(stack)]
Pop == SubSeq(stack, 1, Len(stack) - 1)

\* The token types that end the statement loop of each parse function.
StopTypes(fn) ==
    CASE fn = "parseDiagram" -> {"EndUML", "EOF"}
      [] fn = "parsePackage" -> {"RBrace", "EOF"}
      [] fn \in {"parseFragment", "parseElsePart"} -> {"End", "Else", "EndUML", "EOF"}

inFragmentOf(fn) == fn \in {"parseFragment", "parseElsePart"}

\* The cursor after the loop's skipNewlines, and whether the loop ends there.
LoopPos == skipNewlines(pos)
LoopTok == current(LoopPos)
LoopExits == LoopTok.type \in StopTypes(Top.fn)

\* Return a finished statement (or else-part) to the calling frame.
AppendStmts(st) ==
    [stack EXCEPT ![Len(stack)].stmts = @ \o st]

ReturnStmt(st) ==
    LET rest == Pop
    IN [rest EXCEPT ![Len(rest)].stmts = Append(@, st)]

ReturnElse(ep) ==
    LET rest == Pop
    IN [rest EXCEPT ![Len(rest)].elses = Append(@, ep)]

(***************************************************************************)
(* Theme resolver (package theme): skinparam, then theme, then fallback.   *)
(* A Theme is modelled by three of its string fields and one int field.    *)
(***************************************************************************)
Darcula ==
    [ClassBackgroundColor |-> "#3C3F41", ArrowColor |-> "#A9B7C6",
     FontName |-> "DejaVu Sans", FontSize |-> 13]

hardcodedFallback ==
    [ClassBackgroundColor |-> "#FEFECE", ArrowColor |-> "#000000",
     FontName |-> "sans-serif", FontSize |-> 12]

\* NewResolver: a nil theme (<<>>, a theme t being <<t>>) means Darcula; no
\* skinparam is set.
NewResolver(theme) ==
    [theme |-> IF theme = <<>> THEN Darcula ELSE theme[1],
     fallback |-> hardcodedFallback,
     skinparams |-> [n \in {} |-> ""]]

\* SetSkinparam: r.skinparams[name] = value
SetSkinparam(r, name, value) ==
    [r EXCEPT !.skinparams =
        [n \in DOMAIN r.skinparams \cup {name} |->
            IF n = name THEN value ELSE r.skinparams[n]]]

\* skinparamKeys, for the modelled properties.
skinparamKeys ==
    [ClassBackgroundColor |-> "classBackgroundColor", ArrowColor |-> "arrowColor",
     FontName |-> "defaultFontName", FontSize |-> "defaultFontSize"]

\* fieldByName: the string field of that name, "" for any other name.
fieldByName(t, name) ==
    CASE name = "ClassBackgroundColor" -> t.ClassBackgroundColor
      [] name = "ArrowColor" -> t.ArrowColor
      [] name = "FontName" -> t.FontName
      [] OTHER -> ""

themeColor(r, property) == fieldByName(r.theme, property)
fallbackColor(r, property) == fieldByName(r.fallback, property)

\* A mutation of ResolveColor: a non-empty theme value wins over the skinparams.
ResolveColorThemeFirst(r, property) ==
    IF themeColor(r, property) # "" THEN themeColor(r, property)
    ELSE IF property \in DOMAIN skinparamKeys /\ skinparamKeys[property] \in DOMAIN r.skinparams
    THEN r.skinparams[skinparamKeys[property]]
    ELSE IF property \in DOMAIN r.skinparams THEN r.skinparams[property]
    ELSE fallbackColor(r, property)

\* ResolveColor
ResolveColor(r, property) ==
    IF property \in DOMAIN skinparamKeys /\ skinparamKeys[property] \in DOMAIN r.skinparams
    THEN r.skinparams[skinparamKeys[property]]
    ELSE IF property \in DOMAIN r.skinparams THEN r.skinparams[property]
    ELSE IF themeColor(r, property) # "" THEN themeColor(r, property)
    ELSE fallbackColor(r, property)

\* intFieldByName: the int field of that name, 0 for any other name.
intFieldByName(t, name) ==
    CASE name = "FontSize" -> t.FontSize
      [] OTHER -> 0

\* The characters of the skinparam values of this model, and the value
\* ch - '0' of the digits.
runes(s) ==
    CASE s = "" -> <<>>
      [] s = "0" -> <<"0">>
      [] s = "12" -> <<"1", "2">>
      [] s = "1a" -> <<"1", "a">>
      [] s = "#112233" -> <<"#", "1", "1", "2", "2", "3", "3">>
      [] s = "#445566" -> <<"#", "4", "4", "5", "5", "6", "6">>
      [] OTHER -> <<"x">>

digit ==
    [c \in {"0", "1", "2", "3", "4", "5", "6", "7", "8", "9"} |->
        CASE c = "0" -> 0 [] c = "1" -> 1 [] c = "2" -> 2 [] c = "3" -> 3 [] c = "4" -> 4
          [] c = "5" -> 5 [] c = "6" -> 6 [] c = "7" -> 7 [] c = "8" -> 8 [] c = "9" -> 9]

\* The loop of atoiOr over the characters cs with the number n read so far;
\* <<>> is the early return of the fallback.
RECURSIVE atoiLoop(_, _)
atoiLoop(cs, n) ==
    IF cs = <<>> THEN <<n>>
    ELSE IF Head(cs) \notin DOMAIN digit THEN <<>>
    ELSE atoiLoop(Tail(cs), n * 10 + digit[Head(cs)])

atoiOr(s, fallback) ==
    LET n == atoiLoop(runes(s), 0)
    IN IF n = <<>> THEN fallback
       ELSE IF s = "" THEN fallback
       ELSE n[1]

\* A mutation of ResolveInt: a theme value of 0 is returned as configured.
ResolveIntZeroValid(r, property, fallback) ==
    IF property \in DOMAIN skinparamKeys /\ skinparamKeys[property] \in DOMAIN r.skinparams
    THEN atoiOr(r.skinparams[skinparamKeys[property]], fallback)
    ELSE IF property \in DOMAIN r.skinparams THEN atoiOr(r.skinparams[property], fallback)
    ELSE intFieldByName(r.theme, property)

\* ResolveInt
ResolveInt(r, property, fallback) ==
    IF property \in DOMAIN skinparamKeys /\ skinparamKeys[property] \in DOMAIN r.skinparams
    THEN atoiOr(r.skinparams[skinparamKeys[property]], fallback)
    ELSE IF property \in DOMAIN r.skinparams THEN atoiOr(r.skinparams[property], fallback)
    ELSE IF intFieldByName(r.theme, property) # 0 THEN intFieldByName(r.theme, property)
    ELSE IF intFieldByName(r.fallback, property) # 0 THEN intFieldByName(r.fallback, property)
    ELSE fallback

(***************************************************************************)
(* Facade and parser actions                                               *)
(***************************************************************************)
\* A mutation of isSequenceDiagram: Divider and Delay are left out of the switch.
isSequenceDiagramNoDelay(d) ==
    \E i \in 1..Len(d.Statements) :
        d.Statements[i].kind \in {"Participant", "Message", "Fragment", "Activate", "Autonumber"}

\* isSequenceDiagram: some top-level statement is of a sequence-only kind.
isSequenceDiagram(d) ==
    \E i \in 1..Len(d.Statements) :
        d.Statements[i].kind \in {"Participant", "Message", "Fragment", "Activate",
                                  "Autonumber", "Divider", "Delay"}

\* A mutation of DiagramHandle: an empty diagram is handed back as nil.
DiagramHandleNilOnEmpty(d) == IF d.Statements = <<>> THEN <<>> ELSE <<[internal |-> d]>>

\* &Diagram{internal: diagram}, the handle the facade's Parse returns.
DiagramHandle(d) == <<[internal |-> d]>>

\* Parse (facade) when io.ReadAll fails: no diagram, one synthetic diagnostic.
ParseReadError ==
    /\ ppc = "init" /\ readErr
    /\ handle' = <<>>
    /\ errors' = <<[line |-> 1, idx |-> 1, msg |-> "reading input"]>>
    /\ ppc' = "parsed"
    /\ UNCHANGED <<input, readErr, tokens, pos, seqMode, stack, renderer, codec, lay, res, xvars>>

\* Parse -> parser.Parse -> parseDiagram up to its statement loop.
parseDiagram ==
    /\ ppc = "init" /\ ~readErr
    /\ LET p0 == skipNewlines(pos)
           tok == current(p0)
       IN CASE tok.type = "StartUML" ->
                 LET q == advance(p0)
                     q1 == IF current(q).type \in {"Ident", "String"} THEN advance(q) ELSE q
                 IN /\ pos' = skipNewlines(q1)
                    /\ errors' = errors
                    /\ stack' = <<Frame("parseDiagram", Nil)>>
                    /\ ppc' = "parsing"
                    /\ handle' = handle
            [] tok.type = "EOF" ->
                 /\ pos' = p0
                 /\ errors' = errors
                 /\ stack' = <<>>
                 /\ ppc' = "parsed"
                 /\ handle' = DiagramHandle([Statements |-> <<>>])
            [] OTHER ->
                 /\ pos' = skipToNextLine(p0)
                 /\ errors' = Append(errors, addError(tok, "expected @startuml"))
                 /\ stack' = <<Frame("parseDiagram", Nil)>>
                 /\ ppc' = "parsing"
                 /\ handle' = handle
    /\ UNCHANGED <<input, readErr, tokens, seqMode, renderer, codec, lay, res, xvars>>

\* One iteration of a statement loop whose statement is neither a fragment
\* nor a package.
parseStatement ==
    /\ ppc = "parsing" /\ ~LoopExits
    /\ LoopTok.type \notin FragmentTypes \cup PackageTypes
    /\ LET r == parseSimpleStatement(LoopPos, inFragmentOf(Top.fn), seqMode)
       IN /\ pos' = r.p
          /\ errors' = errors \o r.errs
          /\ stack' = AppendStmts(r.st)
    /\ seqMode' = (seqMode \/ LoopTok.type \in SeqModeTypes)
    /\ UNCHANGED <<input, readErr, tokens, ppc, handle, renderer, codec, lay, res, xvars>>

\* parseFragment up to its body loop.
parseFragment ==
    /\ ppc = "parsing" /\ ~LoopExits
    /\ LoopTok.type \in FragmentTypes
    /\ seqMode' = TRUE
    /\ pos' = skipNewlines(readRestOfLine(advance(LoopPos)))
    /\ stack' = Append(stack, Frame("parseFragment",
                           Stmt("Fragment", LoopTok, "", "", LoopTok.type, FALSE)))
    /\ UNCHANGED <<input, readErr, tokens, errors, ppc, handle, renderer, codec, lay, res, xvars>>

\* parseFragment, `for current == else`: parseElsePart up to its body loop.
parseElsePart ==
    /\ ppc = "parsing" /\ LoopExits
    /\ Top.fn = "parseFragment" /\ LoopTok.type = "Else"
    /\ pos' = skipNewlines(readRestOfLine(advance(LoopPos)))
    /\ stack' = Append(stack, Frame("parseElsePart", [line |-> LoopTok.line]))
    /\ UNCHANGED <<input, readErr, tokens, errors, seqMode, ppc, handle, renderer, codec, lay, res, xvars>>

\* parseElsePart returns its else-part to parseFragment.
parseElsePartReturn ==
    /\ ppc = "parsing" /\ LoopExits
    /\ Top.fn = "parseElsePart"
    /\ pos' = LoopPos
    /\ stack' = ReturnElse([line |-> Top.node.line, body |-> Top.stmts])
    /\ UNCHANGED <<input, readErr, tokens, errors, seqMode, ppc, handle, renderer, codec, lay, res, xvars>>

\* parseFragment after its loops: consume `end` or diagnose, return the fragment.
parseFragmentReturn ==
    /\ ppc = "parsing" /\ LoopExits
    /\ Top.fn = "parseFragment" /\ LoopTok.type # "Else"
    /\ IF LoopTok.type = "End"
       THEN /\ pos' = skipToNextLine(advance(LoopPos))
            /\ errors' = errors
       ELSE /\ pos' = LoopPos
            /\ errors' = Append(errors, addError(LoopTok, "expected 'end' to close fragment"))
    /\ stack' = ReturnStmt([Top.node EXCEPT !.body = Top.stmts, !.elses = Top.elses])
    /\ UNCHANGED <<input, readErr, tokens, seqMode, ppc, handle, renderer, codec, lay, res, xvars>>

\* parsePackage: header, then either no body or the start of the body loop.
parsePackage ==
    /\ ppc = "parsing" /\ ~LoopExits
    /\ LoopTok.type \in PackageTypes
    /\ LET q == advance(LoopPos)
           nm == IF current(q).type \in {"Ident", "String"} THEN readClassName(q)
                 ELSE [p |-> q, name |-> ""]
           q1 == optAlias(nm.p)
           pkg == Stmt("Package", LoopTok, nm.name, "", "", LoopTok.type = "Namespace")
       IN IF current(q1).type = "LBrace"
          THEN /\ pos' = skipNewlines(advance(q1))
               /\ stack' = Append(stack, Frame("parsePackage", pkg))
          ELSE /\ pos' = q1
               /\ stack' = AppendStmts(<<pkg>>)
    /\ UNCHANGED <<input, readErr, tokens, errors, seqMode, ppc, handle, renderer, codec, lay, res, xvars>>

\* parsePackage after its body loop: consume `}` or diagnose, return the package.
parsePackageReturn ==
    /\ ppc = "parsing" /\ LoopExits
    /\ Top.fn = "parsePackage"
    /\ IF LoopTok.type = "RBrace"
       THEN /\ pos' = advance(LoopPos)
            /\ errors' = errors
       ELSE /\ pos' = LoopPos
            /\ errors' = Append(errors, addError(LoopTok, "expected closing } for package"))
    /\ stack' = ReturnStmt([Top.node EXCEPT !.body = Top.stmts])
    /\ UNCHANGED <<input, readErr, tokens, seqMode, ppc, handle, renderer, codec, lay, res, xvars>>

\* parseDiagram after its statement loop; parser.Parse and the facade's Parse
\* hand back the diagram and the diagnostics.
parseDiagramReturn ==
    /\ ppc = "parsing" /\ LoopExits
    /\ Top.fn = "parseDiagram"
    /\ IF LoopTok.type = "EndUML"
       THEN /\ pos' = advance(LoopPos)
            /\ errors' = errors
       ELSE /\ pos' = LoopPos
            /\ errors' = Append(errors, addError(LoopTok, "expected @enduml before end of input"))
    /\ handle' = DiagramHandle([Statements |-> Top.stmts])
    /\ stack' = <<>>
    /\ ppc' = "parsed"
    /\ UNCHANGED <<input, readErr, tokens, seqMode, renderer, codec, lay, res, xvars>>

\* The options a caller passes: WithTheme (<<>> is no theme) and the map that
\* WithSkinparam fills.
CallerOptions ==
    { [theme |-> <<>>, skinparams |-> [n \in {} |-> ""]],
      [theme |-> <<>>, skinparams |-> [n \in {"classBackgroundColor"} |-> "blue"]],
      [theme |-> <<>>, skinparams |-> [n \in {"ClassBackgroundColor"} |-> "blue"]],
      [theme |-> <<[Darcula EXCEPT !.ClassBackgroundColor = ""]>>,
       skinparams |-> [n \in {"classBackgroundColor"} |-> "blue"]] }

\* for k, v := range o.skinparams { resolver.SetSkinparam(k, v) }
RECURSIVE setAll(_, _)
setAll(r, m) ==
    IF DOMAIN m = {} THEN r
    ELSE LET k == CHOOSE n \in DOMAIN m : TRUE
         IN setAll(SetSkinparam(r, k, m[k]), [n \in DOMAIN m \ {k} |-> m[n]])

\* applySkinparams, and the same loop of ClassRenderer.Render: every top-level
\* skinparam directive is set on the resolver, in statement order.
RECURSIVE applySkinparams(_, _)
applySkinparams(r, stmts) ==
    IF stmts = <<>> THEN r
    ELSE applySkinparams(
             IF Head(stmts).kind = "Skinparam"
             THEN SetSkinparam(r, Head(stmts).name, Head(stmts).to) ELSE r,
             Tail(stmts))

\* The names of a participant list.
seen(result) == {result[i].name : i \in 1..Len(result)}

\* collectParticipants, first loop: the Participant statements of the
\* diagram's statement list, in order, one per name.
RECURSIVE declaredParticipants(_, _)
declaredParticipants(stmts, result) ==
    IF stmts = <<>> THEN result
    ELSE LET s == Head(stmts)
         IN declaredParticipants(Tail(stmts),
                IF s.kind = "Participant" /\ s.name \notin seen(result)
                THEN Append(result, [name |-> s.name, kind |-> s.arrow])
                ELSE result)

\* for _, name := range []string{m.From, m.To}
addEndpoint(result, name) ==
    IF name # "" /\ name \notin seen(result)
    THEN Append(result, [name |-> name, kind |-> "Participant"])
    ELSE result

\* collectParticipants, second loop: the ends of the Message statements of
\* the diagram's statement list that are not known yet (kind
\* ParticipantDefault, the kind of the `participant` keyword).
RECURSIVE messageParticipants(_, _)
messageParticipants(stmts, result) ==
    IF stmts = <<>> THEN result
    ELSE LET s == Head(stmts)
         IN messageParticipants(Tail(stmts),
                IF s.kind = "Message"
                THEN addEndpoint(addEndpoint(result, s.name), s.to)
                ELSE result)

\* collectParticipants: the participant boxes, left to right.
collectParticipants(d) ==
    messageParticipants(d.Statements, declaredParticipants(d.Statements, <<>>))

\* SequenceRenderer.Render, as far as the resolver goes: an empty diagram is
\* rendered before the directives are applied.
SequenceRender(r, d) ==
    IF collectParticipants(d) = <<>> THEN r ELSE applySkinparams(r, d.Statements)

\* ClassRenderer.Render, as far as the resolver goes.
ClassRender(r, d) == applySkinparams(r, d.Statements)

\* RenderDiagram: build the resolver from the options, pick the renderer from
\* the finished AST and render; res keeps the options and the resolver the
\* renderer drew with.
RenderDiagram ==
    /\ ppc = "parsed" /\ handle # <<>>
    /\ renderer' = IF isSequenceDiagram(handle[1].internal) THEN "sequence" ELSE "class"
    /\ \E o \in CallerOptions :
         \E resolver \in {setAll(NewResolver(o.theme), o.skinparams)} :
            res' = [pc |-> "rendered", o |-> o,
                    r |-> IF isSequenceDiagram(handle[1].internal)
                          THEN SequenceRender(resolver, handle[1].internal)
                          ELSE ClassRender(resolver, handle[1].internal)]
    /\ ppc' = "rendered"
    /\ UNCHANGED <<input, readErr, tokens, pos, errors, seqMode, stack, handle, codec, lay, xvars>>

(***************************************************************************)
(* Parser specification: every text of at most MaxLines lines drawn from   *)
(* LineTemplates, optionally wrapped in @startuml / @enduml                *)
(***************************************************************************)
MaxLines == 3

LineTemplates ==
    { <<>>,
      <<"A", "->", "B">>,
      <<"A", "-->", "B">>,
      <<"A">>,
      <<"participant", "A">>,
      <<"par">>,
      <<"alt">>,
      <<"else">>,
      <<"end">>,
      <<"$", "A">>,
      <<"class", "A", "{">>,
      <<"class">>,
      <<"}">>,
      <<"package", "P", "{">>,
      <<"...">>,
      <<"skinparam", "classBackgroundColor", "red">> }

RECURSIVE JoinLines(_)
JoinLines(ls) ==
    IF ls = <<>> THEN <<>>
    ELSE IF Len(ls) = 1 THEN ls[1]
    ELSE ls[1] \o <<"\n">> \o JoinLines(Tail(ls))

\* The text of lines ls, wrapped in @startuml / @enduml as asked.
InputOf(hdr, end, ls) ==
    JoinLines((IF hdr THEN <<(<<"@startuml">>)>> ELSE <<>>) \o ls \o
              (IF end THEN <<(<<"@enduml">>)>> ELSE <<>>))

InitParser ==
    /\ \E hdr \in BOOLEAN, end \in BOOLEAN, ls \in SeqsUpTo(LineTemplates, MaxLines) :
           input = InputOf(hdr, end, ls)
    /\ readErr \in IF input = <<>> THEN BOOLEAN ELSE {FALSE}
    /\ tokens = Tokenize(input)
    /\ pos = 1
    /\ errors = <<>>
    /\ seqMode = FALSE
    /\ stack = <<>>
    /\ ppc = "init"
    /\ handle = <<>>
    /\ renderer = Nil
    /\ codec = Idle /\ lay = Idle /\ res = Idle /\ OthersIdle

NextParser ==
    \/ ParseReadError
    \/ parseDiagram
    \/ parseStatement
    \/ parseFragment
    \/ parseElsePart
    \/ parseElsePartReturn
    \/ parseFragmentReturn
    \/ parsePackage
    \/ parsePackageReturn
    \/ parseDiagramReturn
    \/ RenderDiagram

SpecParser == InitParser /\ [][NextParser]_vars

(***************************************************************************)
(* Properties of the parser and the facade                                 *)
(***************************************************************************)
ParseDone == ppc \in {"parsed", "rendered"}

StatementKinds == {"Comment", "ClassDef", "InterfaceDef", "EnumDef", "Relationship",
                   "Package", "Note", "Skinparam", "HideShow", "Participant", "Message",
                   "Fragment", "Activate", "Return", "Autonumber", "Divider", "Delay"}

\* C1: for every input string (empty, blank, garbage or well formed), with or
\* without diagnostics, Parse returns a non-nil handle whose diagram holds a
\* list of statements of the known kinds.
C1_ParseReturnsDiagram ==
    (ParseDone /\ ~readErr) =>
        /\ handle # <<>>
        /\ \A i \in 1..Len(handle[1].internal.Statements) :
               handle[1].internal.Statements[i].kind \in StatementKinds

\* A garbage input: diagnostics were produced and the handle is still there.
C1_Witness ==
    /\ ParseDone /\ ~readErr
    /\ \E i \in 1..Len(errors) : errors[i].msg = "expected @startuml"
    /\ handle # <<>> /\ Len(handle[1].internal.Statements) = 1

\* The token types that can start a statement.
StartsStatement(tok) ==
    \/ tok.type \in {"LineComment", "BlockComment", "Title", "Header", "Footer",
                     "Skinparam", "Hide", "Show", "Class", "Abstract", "Interface",
                     "Enum", "Package", "Namespace", "Participant", "Actor",
                     "Boundary", "Control", "Entity", "Database", "Collections",
                     "Queue", "Activate", "Deactivate", "Return", "Alt", "Loop",
                     "Par", "Break", "Ref", "Group", "Autonumber", "Note", "Equals",
                     "Ident"}
    \/ tok.type = "Arrow" /\ tok.lit \in {"...", "...."}

\* A statement is expected and the current token cannot start one.
BadStatementStart == ppc = "parsing" /\ ~LoopExits /\ ~StartsStatement(LoopTok)

\* The index of the first token of the line after the one token p is on
\* (the EOF token if there is no further line).
NextLineStart(p) ==
    LET ends == {i \in p..Len(tokens) : tokens[i].type \in {"Newline", "EOF"}}
        e == CHOOSE i \in ends : \A j \in ends : i <= j
    IN IF tokens[e].type = "Newline" THEN e + 1 ELSE e

\* C2: whenever a statement is expected and the current token cannot start
\* one, the parser appends exactly one diagnostic positioned at that token,
\* discards the rest of the line, keeps every statement parsed so far and
\* stays in the statement loop.
C2_ErrorRecovery ==
    [][BadStatementStart =>
        /\ Len(errors') = Len(errors) + 1
        /\ SubSeq(errors', 1, Len(errors)) = errors
        /\ errors'[Len(errors')].line = LoopTok.line
        /\ errors'[Len(errors')].idx = LoopTok.idx
        /\ pos' = NextLineStart(LoopPos)
        /\ stack' = stack
        /\ ppc' = "parsing"]_vars

\* "@startuml\n$ A\n$ A\nA\n@enduml": a diagnostic on line 2, one on line 3, and
\* the statement of line 4 is in the diagram.
C2_Witness ==
    /\ ParseDone /\ handle # <<>>
    /\ Len(errors) = 2 /\ errors[1].line = 2 /\ errors[2].line = 3
    /\ \E i \in 1..Len(handle[1].internal.Statements) :
           handle[1].internal.Statements[i].line = 4

\* The diagnostics after which the parser skips to the next line.
RecoveryMessages == {"expected @startuml", "unexpected arrow", "unexpected token",
                     "unexpected", "unexpected identifier", "expected class name",
                     "expected interface name", "expected enum name"}

\* C3 as claimed: no two diagnostics of a parse are on the same line.
C3_Original ==
    \A i, j \in 1..Len(errors) : i # j => errors[i].line # errors[j].line

\* C3 amended: no two diagnostics raised by the skip-to-next-line recovery
\* are on the same line (the closing diagnostics for a missing }, end or
\* @enduml sit where parsing stopped and may share a line with another one).
C3_OnePerLine ==
    \A i, j \in 1..Len(errors) :
        (i # j /\ errors[i].msg \in RecoveryMessages /\ errors[j].msg \in RecoveryMessages)
            => errors[i].line # errors[j].line

\* Two recovery diagnostics on different lines and a closing diagnostic that
\* shares the line of the second.
C3_Witness ==
    /\ ParseDone
    /\ Len(errors) = 3
    /\ errors[1].msg \in RecoveryMessages /\ errors[2].msg \in RecoveryMessages
    /\ errors[3].msg \notin RecoveryMessages
    /\ errors[2].line = errors[3].line

\* The keyword spellings that are sequence-only.
SequenceKeywords == {"participant", "actor", "boundary", "control", "entity", "database",
                     "collections", "queue", "activate", "deactivate", "return", "alt",
                     "loop", "par", "break", "ref", "group", "autonumber"}

\* The statement loop is at a line of the form identifier, arrow, identifier.
AtIdentArrowIdent ==
    /\ ppc = "parsing" /\ ~LoopExits
    /\ LoopTok.type = "Ident" /\ LoopTok.lit \notin SequenceKeywords
    /\ current(LoopPos + 1).type = "Arrow"
    /\ current(LoopPos + 2).type = "Ident"

\* The statement loop is at a line that starts with a sequence-only keyword.
AtSequenceKeyword == ppc = "parsing" /\ ~LoopExits /\ LoopTok.lit \in SequenceKeywords

\* The statement the step has appended to the running statement list.
Appended == Top'.stmts[Len(Top'.stmts)]
AppendedOne == Len(stack') = Len(stack) /\ Len(Top'.stmts) = Len(Top.stmts) + 1

\* C4 as claimed: consuming a sequence-only keyword turns the switch on, the
\* switch is never turned off, and an identifier-arrow-identifier line is a
\* Message when the switch is on and a Relationship when it is off.
C4_SeqModeSwitch ==
    [][/\ AtSequenceKeyword => seqMode'
       /\ seqMode => seqMode'
       /\ AtIdentArrowIdent =>
            /\ AppendedOne
            /\ Appended.kind = IF seqMode THEN "Message" ELSE "Relationship"]_vars

\* The top-level statements RenderDiagram looks at.
TopLevelKinds ==
    {handle[1].internal.Statements[i].kind : i \in 1..Len(handle[1].internal.Statements)}

\* C5: RenderDiagram uses the sequence renderer exactly when a top-level
\* statement is a Participant, Message, Fragment, Activate, Autonumber,
\* Divider or Delay, and the class renderer otherwise.
C5_RendererChoice ==
    ppc = "rendered" =>
        /\ renderer \in {"sequence", "class"}
        /\ renderer = "sequence" <=>
             TopLevelKinds \cap {"Participant", "Message", "Fragment", "Activate",
                                 "Autonumber", "Divider", "Delay"} # {}
        /\ handle[1].internal.Statements = <<>> => renderer = "class"

\* A diagram whose only sequence marker is a Delay goes to the sequence renderer.
C5_Witness ==
    /\ ppc = "rendered" /\ renderer = "sequence"
    /\ TopLevelKinds = {"Delay", "Relationship"}

\* C6 as claimed: before any sequence keyword, a line X -> Y, X <- Y or
\* X <-> Y is parsed as a Message and turns sequence mode on; with any other
\* arrow it is parsed as a Relationship.
C6_ImplicitSequenceMode ==
    [][(AtIdentArrowIdent /\ ~seqMode) =>
        /\ AppendedOne
        /\ IF current(LoopPos + 1).lit \in {"->", "<-", "<->"}
           THEN Appended.kind = "Message" /\ seqMode'
           ELSE Appended.kind = "Relationship" /\ ~seqMode']_vars

\* C20: when a parse is finished, the parser's sequence-mode flag is true
\* exactly when RenderDiagram sends the AST to the sequence renderer.
C20_ModeAgreesWithRenderer ==
    (ParseDone /\ handle # <<>>) => (seqMode <=> isSequenceDiagram(handle[1].internal))

\* The properties a skinparam of that name configures.
PropertiesOf(name) ==
    {name} \cup {p \in DOMAIN skinparamKeys : skinparamKeys[p] = name}

\* The top-level skinparam directives of the parsed diagram.
Directives ==
    {i \in 1..Len(handle[1].internal.Statements) :
        handle[1].internal.Statements[i].kind = "Skinparam"}

\* C11: a value given with WithSkinparam is the one the render resolves for
\* its property; neither the theme, nor the fallback, nor a skinparam
\* directive of the diagram replaces it.
C11_CallerOverrideWins ==
    ppc = "rendered" =>
        \A n \in DOMAIN res.o.skinparams : \A p \in PropertiesOf(n) :
            ResolveColor(res.r, p) = res.o.skinparams[n]

\* Without a directive in the diagram the caller's value is the resolved one.
C11_NoDirective ==
    (ppc = "rendered" /\ Directives = {}) =>
        \A n \in DOMAIN res.o.skinparams : \A p \in PropertiesOf(n) :
            ResolveColor(res.r, p) = res.o.skinparams[n]

(***************************************************************************)
(* Codec (internal/encoding): DEFLATE followed by PlantUML's base64.       *)
(* Texts and compressed data are sequences of bytes, encoded strings are   *)
(* sequences of one-character strings.                                     *)
(***************************************************************************)
\* The parser and facade are not running.
ParserIdle ==
    /\ input = <<>> /\ readErr = FALSE /\ tokens = <<>> /\ pos = 1 /\ errors = <<>>
    /\ seqMode = FALSE /\ stack = <<>> /\ ppc = "idle" /\ handle = <<>> /\ renderer = Nil

alphabet ==
    <<"0", "1", "2", "3", "4", "5", "6", "7", "8", "9",
      "A", "B", "C", "D", "E", "F", "G", "H", "I", "J", "K", "L", "M",
      "N", "O", "P", "Q", "R", "S", "T", "U", "V", "W", "X", "Y", "Z",
      "a", "b", "c", "d", "e", "f", "g", "h", "i", "j", "k", "l", "m",
      "n", "o", "p", "q", "r", "s", "t", "u", "v", "w", "x", "y", "z",
      "-", "_">>

\* Byte arithmetic: shifts truncate to 8 bits, | is bitwise.
Shl(b, n) == (b * 2^n) % 256
Shr(b, n) == b \div 2^n
RECURSIVE BitOr(_, _)
BitOr(a, b) ==
    IF a = 0 THEN b
    ELSE IF b = 0 THEN a
    ELSE 2 * BitOr(a \div 2, b \div 2) + (IF a % 2 = 1 \/ b % 2 = 1 THEN 1 ELSE 0)
RECURSIVE BitAnd(_, _)
BitAnd(a, b) ==
    IF a = 0 \/ b = 0 THEN 0
    ELSE 2 * BitAnd(a \div 2, b \div 2) + (IF a % 2 = 1 /\ b % 2 = 1 THEN 1 ELSE 0)

\* append4: three bytes become four alphabet characters.
append4(b1, b2, b3) ==
    LET c1 == Shr(b1, 2)
        c2 == BitOr(Shl(BitAnd(b1, 3), 4), Shr(b2, 4))
        c3 == BitOr(Shl(BitAnd(b2, 15), 2), Shr(b3, 6))
        c4 == BitAnd(b3, 63)
    IN <<alphabet[c1 + 1], alphabet[c2 + 1], alphabet[c3 + 1], alphabet[c4 + 1]>>

\* A mutation of encode64: a trailing group of one or two bytes is dropped.
RECURSIVE encode64FullGroupsOnly(_)
encode64FullGroupsOnly(data) ==
    IF Len(data) >= 3
    THEN append4(data[1], data[2], data[3]) \o encode64FullGroupsOnly(SubSeq(data, 4, Len(data)))
    ELSE <<>>

\* encode64: groups of three bytes, the last group padded with zero bytes.
RECURSIVE encode64(_)
encode64(data) ==
    IF data = <<>> THEN <<>>
    ELSE LET rest == SubSeq(data, 4, Len(data))
         IN CASE Len(data) >= 3 -> append4(data[1], data[2], data[3]) \o encode64(rest)
              [] Len(data) = 2 -> append4(data[1], data[2], 0)
              [] OTHER -> append4(data[1], 0, 0)

\* strings.IndexByte(alphabet, c): zero-based index, -1 when absent.
IndexByte(c) ==
    IF \E i \in 1..Len(alphabet) : alphabet[i] = c
    THEN (CHOOSE i \in 1..Len(alphabet) : alphabet[i] = c) - 1
    ELSE -1

\* decode64: every chunk of up to four characters yields three bytes; a
\* character outside the alphabet is an error.
RECURSIVE decode64(_)
decode64(s) ==
    IF s = <<>> THEN [ok |-> TRUE, data |-> <<>>]
    ELSE LET chunk == SubSeq(s, 1, Min(4, Len(s)))
             vals == [j \in 1..4 |-> IF j <= Len(chunk) THEN IndexByte(chunk[j]) ELSE 0]
         IN IF \E j \in 1..4 : vals[j] < 0 THEN [ok |-> FALSE, data |-> <<>>]
            ELSE LET rest == decode64(SubSeq(s, Len(chunk) + 1, Len(s)))
                     three == <<BitOr(Shl(vals[1], 2), Shr(vals[2], 4)),
                                BitOr(Shl(vals[2], 4), Shr(vals[3], 2)),
                                BitOr(Shl(vals[3], 6), vals[4])>>
                 IN IF rest.ok THEN [ok |-> TRUE, data |-> three \o rest.data] ELSE rest

\* flate.Writer, Write then Close.  The DEFLATE stream is modelled in its
\* stored form (RFC 1951, 3.2.4): a final block with header byte 1, LEN and
\* its one's complement NLEN (little endian), then the bytes themselves.
Deflate(text) ==
    LET n == Len(text)
    IN <<1, n % 256, n \div 256, 255 - (n % 256), 255 - (n \div 256)>> \o text

\* flate.Reader read to the end: blocks are read until the final one, whatever
\* follows the final block is not looked at; a truncated or inconsistent
\* block is an error.
RECURSIVE Inflate(_)
Inflate(data) ==
    IF Len(data) < 5 THEN [ok |-> FALSE, text |-> <<>>]
    ELSE LET final == data[1] % 2 = 1
             btype == (data[1] \div 2) % 4
             n == data[2] + 256 * data[3]
             nn == data[4] + 256 * data[5]
         IN IF btype # 0 \/ n + nn # 65535 \/ Len(data) < 5 + n
            THEN [ok |-> FALSE, text |-> <<>>]
            ELSE LET block == SubSeq(data, 6, 5 + n)
                 IN IF final THEN [ok |-> TRUE, text |-> block]
                    ELSE LET rest == Inflate(SubSeq(data, 6 + n, Len(data)))
                         IN IF rest.ok THEN [ok |-> TRUE, text |-> block \o rest.text]
                            ELSE rest

\* Encode: DEFLATE, then the custom base64.
Encode(text) == encode64(Deflate(text))

\* Decode: the custom base64, then inflate.
Decode(encoded) ==
    LET d == decode64(encoded)
    IN IF ~d.ok THEN [ok |-> FALSE, text |-> <<>>] ELSE Inflate(d.data)

\* The caller encodes its text.
EncodeText ==
    /\ codec.pc = "start"
    /\ codec' = [codec EXCEPT !.pc = "encoded", !.encoded = Encode(codec.text)]
    /\ UNCHANGED <<pvars, lay, res, xvars>>

\* The caller decodes what Encode returned.
DecodeText ==
    /\ codec.pc = "encoded"
    /\ LET r == Decode(codec.encoded)
       IN codec' = [codec EXCEPT !.pc = "decoded", !.ok = r.ok, !.result = r.text]
    /\ UNCHANGED <<pvars, lay, res, xvars>>

\* The longest text, and the byte values texts are made of: NUL, newline,
\* "A", the two UTF-8 bytes of U+00E9, and 0xFF.
MaxTextLen == 2
TextBytes == {0, 10, 65, 195, 169, 255}

InitCodec ==
    /\ ParserIdle
    /\ \E t \in SeqsUpTo(TextBytes, MaxTextLen) :
           codec = [pc |-> "start", text |-> t, encoded |-> <<>>, ok |-> FALSE, result |-> <<>>]
    /\ lay = Idle /\ res = Idle /\ OthersIdle

NextCodec == EncodeText \/ DecodeText

SpecCodec == InitCodec /\ [][NextCodec]_vars

\* C7: for every text, the empty one and ones with multi-byte characters
\* included, Decode(Encode(T)) succeeds and returns exactly T.
C7_RoundTrip ==
    codec.pc = "decoded" => (codec.ok /\ codec.result = codec.text)

\* The two-byte UTF-8 text U+00E9 went through twelve characters and came back.
C7_Witness ==
    /\ codec.pc = "decoded" /\ codec.text = <<195, 169>>
    /\ Len(codec.encoded) = 12 /\ codec.encoded # <<>>
    /\ codec.ok /\ codec.result = <<195, 169>>

(***************************************************************************)
(* Layout (package layout): the Sugiyama pipeline of Layout.               *)
(* Node indices are 1-based here (Go index i is i + 1); layers stay        *)
(* 0-based.  All widths and paddings are even, so the division by two of   *)
(* the centering step is exact.                                            *)
(***************************************************************************)
\* DefaultOptions
DefaultOptions == [NodePadding |-> 40, LayerSpacing |-> 60]

\* buildNodeIndex followed by a lookup with the ok flag: 0 stands for absent.
\* For a repeated id the last node wins.
buildNodeIndex(nodes, id) ==
    LET is == {i \in 1..Len(nodes) : nodes[i].id = id}
    IN IF is = {} THEN 0 ELSE CHOOSE i \in is : \A j \in is : j <= i

\* nodeIndex[id] without the ok flag: an absent id reads as Go's zero value,
\* which is the index of the first node.
nodeIndexOrZero(nodes, id) ==
    IF buildNodeIndex(nodes, id) = 0 THEN 1 ELSE buildNodeIndex(nodes, id)

RECURSIVE addEdges(_, _, _)
addEdges(adj, nodes, es) ==
    IF es = <<>> THEN adj
    ELSE LET from == buildNodeIndex(nodes, Head(es).from)
             to == buildNodeIndex(nodes, Head(es).to)
         IN IF from = 0 \/ to = 0 \/ from = to
            THEN addEdges(adj, nodes, Tail(es))
            ELSE addEdges([adj EXCEPT ![from] = Append(@, to)], nodes, Tail(es))

\* buildAdjacency: edges with an unknown endpoint and self-loops are skipped.
buildAdjacency(nodes, edges) == addEdges([i \in 1..Len(nodes) |-> <<>>], nodes, edges)

edgeKey(from, to) == <<from, to>>

\* A mutation of backEdge: the back edge is not recorded.
backEdgeForgotten(reversed, u, v) == reversed

\* removeCycles on meeting a gray node: reversed[edgeKey(u, v)] = true.
backEdge(reversed, u, v) == reversed \cup {edgeKey(u, v)}

\* A mutation of dfsFrame: newAdj starts with every arc of adj[u].
dfsFrameKeepsAdj(u, adj) == [u |-> u, rng |-> adj[u], k |-> 1, newAdj |-> adj[u]]

\* One call of the dfs closure of removeCycles: the node, the slice the range
\* loop iterates over (fixed when the loop starts), the next position in it,
\* and newAdj.
dfsFrame(u, adj) == [u |-> u, rng |-> adj[u], k |-> 1, newAdj |-> <<>>]

\* The inner loop of assignLayers for a dequeued node u.
RECURSIVE relax(_, _, _, _, _)
relax(layers, inDeg, queue, u, vs) ==
    IF vs = <<>> THEN [layers |-> layers, inDeg |-> inDeg, queue |-> queue]
    ELSE LET v == Head(vs)
             l2 == IF layers[u] + 1 > layers[v]
                   THEN [layers EXCEPT ![v] = layers[u] + 1] ELSE layers
             d2 == [inDeg EXCEPT ![v] = @ - 1]
             q2 == IF d2[v] = 0 THEN Append(queue, v) ELSE queue
         IN relax(l2, d2, q2, u, Tail(vs))

\* The in-degrees assignLayers starts from.
inDegrees(adj) ==
    [v \in 1..Len(adj) |->
        Cardinality({<<u, j>> \in (1..Len(adj)) \X (1..Len(adj)) :
                        j <= Len(adj[u]) /\ adj[u][j] = v})]

RECURSIVE indicesFrom(_, _, _)
indicesFrom(f, i, n) ==
    IF i > n THEN <<>>
    ELSE (IF f[i] THEN <<i>> ELSE <<>>) \o indicesFrom(f, i + 1, n)

\* The initial queue of assignLayers: the sources, or node 0 if there is none.
sourceQueue(inDeg) ==
    LET q == indicesFrom([i \in 1..Len(inDeg) |-> inDeg[i] = 0], 1, Len(inDeg))
    IN IF q = <<>> THEN <<1>> ELSE q

\* insertVirtualNodes, the chain for one long edge u -> v (j-th arc of u).
RECURSIVE chain(_, _, _, _, _, _, _)
chain(acc, u, j, v, k, span, prev) ==
    IF k >= span THEN [acc EXCEPT !.newAdj[prev] = Append(@, v)]
    ELSE LET vnIdx == Len(acc.nodes) + 1
             vn == [id |-> "", w |-> 0, h |-> 0, virtual |-> TRUE, x |-> 0, y |-> 0,
                    layer |-> acc.layers[u] + k, order |-> 0]
             a1 == [nodes |-> Append(acc.nodes, vn),
                    layers |-> Append(acc.layers, acc.layers[u] + k),
                    newAdj |-> Append(acc.newAdj, <<>>)]
             a2 == IF prev = u THEN [a1 EXCEPT !.newAdj[prev][j] = vnIdx]
                   ELSE [a1 EXCEPT !.newAdj[prev] = Append(@, vnIdx)]
         IN chain(a2, u, j, v, k + 1, span, vnIdx)

RECURSIVE virtualLoop(_, _, _, _)
virtualLoop(acc, adj, u, j) ==
    IF u > Len(adj) THEN acc
    ELSE IF j > Len(adj[u]) THEN virtualLoop(acc, adj, u + 1, 1)
    ELSE LET v == adj[u][j]
             span == acc.layers[v] - acc.layers[u]
         IN IF span <= 1 THEN virtualLoop(acc, adj, u, j + 1)
            ELSE virtualLoop(chain(acc, u, j, v, 1, span, u), adj, u, j + 1)

\* A mutation of insertVirtualNodes: long arcs stay as they are.
insertVirtualNodesNone(adj, layers, nodes) ==
    [nodes |-> nodes, layers |-> layers, newAdj |-> adj]

\* insertVirtualNodes: every arc that spans more than one layer becomes a
\* chain through new virtual nodes.
insertVirtualNodes(adj, layers, nodes) ==
    virtualLoop([nodes |-> nodes, layers |-> layers, newAdj |-> adj], adj, 1, 1)

RECURSIVE maxOf(_)
maxOf(s) == IF s = <<>> THEN 0 ELSE Max(Head(s), maxOf(Tail(s)))

\* buildLayerBuckets: bucket l + 1 lists the nodes of layer l by index.
buildLayerBuckets(layers) ==
    [b \in 1..(maxOf(layers) + 1) |->
        indicesFrom([i \in 1..Len(layers) |-> layers[i] = b - 1], 1, Len(layers))]

\* The reverse adjacency minimizeCrossings builds.
RECURSIVE reverseAdj(_, _, _, _)
reverseAdj(radj, adj, u, j) ==
    IF u > Len(adj) THEN radj
    ELSE IF j > Len(adj[u]) THEN reverseAdj(radj, adj, u + 1, 1)
    ELSE reverseAdj([radj EXCEPT ![adj[u][j]] = Append(@, u)], adj, u, j + 1)

\* Position of a node in a layer, 0-based; -1 if it is not there.
posIn(layer, node) ==
    IF \E i \in 1..Len(layer) : layer[i] = node
    THEN (CHOOSE i \in 1..Len(layer) : layer[i] = node) - 1
    ELSE -1

\* The barycenter of a node as a fraction num/den; a node without a
\* neighbour in the fixed layer keeps its own position.
RECURSIVE sumPos(_, _)
sumPos(fixedLayer, ns) ==
    IF ns = <<>> THEN [sum |-> 0, count |-> 0]
    ELSE LET r == sumPos(fixedLayer, Tail(ns))
             q == posIn(fixedLayer, Head(ns))
         IN IF q >= 0 THEN [sum |-> r.sum + q, count |-> r.count + 1] ELSE r

barycenter(node, idx, fixedLayer, connections) ==
    LET r == sumPos(fixedLayer, connections[node])
    IN IF r.count > 0 THEN [node |-> node, num |-> r.sum, den |-> r.count]
       ELSE [node |-> node, num |-> idx, den |-> 1]

\* entries[j].barycenter < entries[j-1].barycenter
bcLess(a, b) == a.num * b.den < b.num * a.den

\* The insertion sort of reorderByBarycenter: entry j moves left while it is
\* strictly smaller than its left neighbour.
RECURSIVE sink(_, _)
sink(es, j) ==
    IF j > 1 /\ bcLess(es[j], es[j - 1])
    THEN sink([es EXCEPT ![j] = es[j - 1], ![j - 1] = es[j]], j - 1)
    ELSE es

RECURSIVE insertionSort(_, _)
insertionSort(es, i) == IF i > Len(es) THEN es ELSE insertionSort(sink(es, i), i + 1)

reorderByBarycenter(layer, fixedLayer, connections) ==
    CHOOSE r \in
        {[i \in 1..Len(layer) |-> sorted[i].node] :
            sorted \in {insertionSort(entries, 2) :
                entries \in {[i \in 1..Len(layer) |->
                                barycenter(layer[i], i - 1, fixedLayer, connections)]}}} : TRUE

\* (Here and below a one-element set { e } only gives the value of e a name.)
RECURSIVE downSweep(_, _, _)
downSweep(b, radj, i) ==
    IF i >= Len(b) THEN b
    ELSE CHOOSE r \in {downSweep(nb, radj, i + 1) :
                          nb \in {[b EXCEPT ![i + 1] = reorderByBarycenter(b[i + 1], b[i], radj)]}} : TRUE

RECURSIVE upSweep(_, _, _)
upSweep(b, adj, i) ==
    IF i <= 1 THEN b
    ELSE CHOOSE r \in {upSweep(nb, adj, i - 1) :
                          nb \in {[b EXCEPT ![i - 1] = reorderByBarycenter(b[i - 1], b[i], adj)]}} : TRUE

\* minimizeCrossings: four passes, down and up sweeps alternating.
minimizeCrossings(layerBuckets, adj, n) ==
    CHOOSE r \in
        UNION {{upSweep(p2, adj, Len(p2)) :
                   p2 \in {downSweep(p1, radj, 1) :
                      p1 \in {upSweep(p0, adj, Len(p0)) :
                         p0 \in {downSweep(layerBuckets, radj, 1)}}}} :
                radj \in {reverseAdj([i \in 1..n |-> <<>>], adj, 1, 1)}} : TRUE

\* orderInLayer
orderInLayer(buckets, layer, nodeIdx) == Max(posIn(buckets[layer + 1], nodeIdx), 0)

\* A mutation of xAfter: the node's own width is not added.
xAfterPaddingOnly(x, node, opts) == x + opts.NodePadding

\* assignCoordinates: x += node.Width + opts.NodePadding
xAfter(x, node, opts) == x + node.w + opts.NodePadding

RECURSIVE placeLayer(_, _, _, _, _)
placeLayer(nodes, layer, x, y, opts) ==
    IF layer = <<>> THEN nodes
    ELSE placeLayer([nodes EXCEPT ![Head(layer)].x = x, ![Head(layer)].y = y],
                    Tail(layer), xAfter(x, nodes[Head(layer)], opts), y, opts)

RECURSIVE maxHeight(_, _)
maxHeight(nodes, layer) ==
    IF layer = <<>> THEN 0 ELSE Max(nodes[Head(layer)].h, maxHeight(nodes, Tail(layer)))

RECURSIVE placeLayers(_, _, _, _, _)
placeLayers(nodes, buckets, b, y, opts) ==
    IF b > Len(buckets) THEN nodes
    ELSE placeLayers(placeLayer(nodes, buckets[b], 0, y, opts), buckets, b + 1,
                     y + maxHeight(nodes, buckets[b]) + opts.LayerSpacing, opts)

RECURSIVE sumWidth(_, _)
sumWidth(nodes, layer) ==
    IF layer = <<>> THEN 0 ELSE nodes[Head(layer)].w + sumWidth(nodes, Tail(layer))

layerWidth(nodes, layer, padding) ==
    IF layer = <<>> THEN 0 ELSE sumWidth(nodes, layer) + padding * (Len(layer) - 1)

\* assignCoordinates: left-to-right placement per layer, then every layer is
\* centred on the widest one.
assignCoordinates(nodes, layerBuckets, opts) ==
    LET placed == placeLayers(nodes, layerBuckets, 1, 0, opts)
        maxWidth == maxOf([b \in 1..Len(layerBuckets) |->
                              layerWidth(placed, layerBuckets[b], opts.NodePadding)])
        offset(b) == (maxWidth - layerWidth(placed, layerBuckets[b], opts.NodePadding)) \div 2
        bucketOf(i) == CHOOSE b \in 1..Len(layerBuckets) : posIn(layerBuckets[b], i) >= 0
    IN [i \in 1..Len(nodes) |-> [placed[i] EXCEPT !.x = @ + offset(bucketOf(i))]]

\* Layout, lines 47-52: an empty graph returns at once.
LayoutEmpty ==
    /\ lay.pc = "start" /\ lay.nodes = <<>>
    /\ lay' = [lay EXCEPT !.pc = "done"]
    /\ UNCHANGED <<pvars, codec, res, xvars>>

\* Layout, lines 50-52: node index and adjacency, then removeCycles begins.
LayoutStart ==
    /\ lay.pc = "start" /\ lay.nodes # <<>>
    /\ lay' = [lay EXCEPT !.pc = "removeCycles",
                          !.adj = buildAdjacency(lay.nodes, lay.edges),
                          !.color = [i \in 1..Len(lay.nodes) |-> "white"]]
    /\ UNCHANGED <<pvars, codec, res, xvars>>

\* removeCycles, the outer loop: dfs(i) for the next white node.
dfsRoot ==
    /\ lay.pc = "removeCycles" /\ lay.dfs = <<>>
    /\ \E i \in 1..Len(lay.color) :
         /\ lay.color[i] = "white"
         /\ \A j \in 1..(i - 1) : lay.color[j] # "white"
         /\ lay' = [lay EXCEPT !.color[i] = "gray", !.dfs = <<dfsFrame(i, lay.adj)>>]
    /\ UNCHANGED <<pvars, codec, res, xvars>>

\* removeCycles, one iteration of the range loop of the innermost dfs call.
dfsVisit ==
    /\ lay.pc = "removeCycles" /\ lay.dfs # <<>>
    /\ LET d == Len(lay.dfs)
           f == lay.dfs[d]
       IN /\ f.k <= Len(f.rng)
          /\ LET u == f.u
                 v == f.rng[f.k]
             IN CASE lay.color[v] = "gray" ->
                       lay' = [lay EXCEPT !.reversed = backEdge(@, u, v),
                                          !.adj[v] = Append(@, u),
                                          !.dfs[d].k = @ + 1]
                  [] lay.color[v] = "white" ->
                       lay' = [lay EXCEPT !.color[v] = "gray",
                                          !.dfs = Append([@ EXCEPT ![d].k = f.k + 1,
                                                                   ![d].newAdj = Append(f.newAdj, v)],
                                                         dfsFrame(v, lay.adj))]
                  [] OTHER ->
                       lay' = [lay EXCEPT !.dfs[d].k = @ + 1,
                                          !.dfs[d].newAdj = Append(@, v)]
    /\ UNCHANGED <<pvars, codec, res, xvars>>

\* removeCycles, the end of a dfs call: adj[u] = newAdj; color[u] = black.
dfsReturn ==
    /\ lay.pc = "removeCycles" /\ lay.dfs # <<>>
    /\ LET d == Len(lay.dfs)
           f == lay.dfs[d]
       IN /\ f.k > Len(f.rng)
          /\ lay' = [lay EXCEPT !.adj[f.u] = f.newAdj,
                                !.color[f.u] = "black",
                                !.dfs = SubSeq(@, 1, d - 1)]
    /\ UNCHANGED <<pvars, codec, res, xvars>>

\* removeCycles returns; Layout, lines 55-60, marks the reversed edges.
markReversed ==
    /\ lay.pc = "removeCycles" /\ lay.dfs = <<>>
    /\ \A i \in 1..Len(lay.color) : lay.color[i] # "white"
    /\ lay' = [lay EXCEPT
                 !.pc = "assignLayers",
                 !.edges = [k \in 1..Len(lay.edges) |->
                              IF edgeKey(nodeIndexOrZero(lay.nodes, lay.edges[k].from),
                                         nodeIndexOrZero(lay.nodes, lay.edges[k].to))
                                    \in lay.reversed
                              THEN [lay.edges[k] EXCEPT !.reversed = TRUE]
                              ELSE lay.edges[k]]]
    /\ UNCHANGED <<pvars, codec, res, xvars>>

\* assignLayers, lines 148-166: in-degrees and the initial queue.
assignLayersInit ==
    /\ lay.pc = "assignLayers"
    /\ lay' = [lay EXCEPT !.pc = "queue",
                          !.layers = [i \in 1..Len(lay.adj) |-> 0],
                          !.inDeg = inDegrees(lay.adj),
                          !.queue = sourceQueue(inDegrees(lay.adj))]
    /\ UNCHANGED <<pvars, codec, res, xvars>>

\* assignLayers, one iteration of the queue loop.
assignLayersStep ==
    /\ lay.pc = "queue" /\ lay.queue # <<>>
    /\ LET u == Head(lay.queue)
           r == relax(lay.layers, lay.inDeg, Tail(lay.queue), u, lay.adj[u])
       IN lay' = [lay EXCEPT !.layers = r.layers, !.inDeg = r.inDeg, !.queue = r.queue]
    /\ UNCHANGED <<pvars, codec, res, xvars>>

\* assignLayers returns; Layout, lines 63-65, stores the layers in the nodes.
assignLayersReturn ==
    /\ lay.pc = "queue" /\ lay.queue = <<>>
    /\ lay' = [lay EXCEPT !.pc = "insertVirtualNodes",
                          !.nodes = [i \in 1..Len(lay.nodes) |->
                                        [lay.nodes[i] EXCEPT !.layer = lay.layers[i]]]]
    /\ UNCHANGED <<pvars, codec, res, xvars>>

\* Layout, line 67.
LayoutVirtualNodes ==
    /\ lay.pc = "insertVirtualNodes"
    /\ \E r \in {insertVirtualNodes(lay.adj, lay.layers, lay.nodes)} :
          lay' = [lay EXCEPT !.pc = "minimizeCrossings", !.adj = r.newAdj,
                             !.layers = r.layers, !.nodes = r.nodes]
    /\ UNCHANGED <<pvars, codec, res, xvars>>

\* Layout, lines 69-74: buckets, crossing minimisation, Order of every node.
LayoutOrder ==
    /\ lay.pc = "minimizeCrossings"
    /\ \E b \in {minimizeCrossings(buildLayerBuckets(lay.layers), lay.adj, Len(lay.nodes))} :
          lay' = [lay EXCEPT !.pc = "assignCoordinates", !.buckets = b,
                             !.nodes = [i \in 1..Len(lay.nodes) |->
                                           [lay.nodes[i] EXCEPT
                                               !.order = orderInLayer(b, lay.layers[i], i)]]]
    /\ UNCHANGED <<pvars, codec, res, xvars>>

\* Layout, line 76.
LayoutCoordinates ==
    /\ lay.pc = "assignCoordinates"
    /\ lay' = [lay EXCEPT !.pc = "done",
                          !.nodes = assignCoordinates(lay.nodes, lay.buckets, lay.opts)]
    /\ UNCHANGED <<pvars, codec, res, xvars>>

\* The most edges of an input graph.
MaxEdges == 3

\* The node ids graphs are made of, and the node sizes of the WideGraph and
\* FlatGraph tests.
NodeIds == <<"A", "B", "C">>
SizeProfiles ==
    { <<[w |-> 150, h |-> 60], [w |-> 120, h |-> 40], [w |-> 180, h |-> 50]>>,
      <<[w |-> 100, h |-> 50], [w |-> 100, h |-> 50], [w |-> 100, h |-> 50]>> }
EdgeChoices ==
    {[from |-> NodeIds[i], to |-> NodeIds[j], reversed |-> FALSE] :
        i \in 1..Len(NodeIds), j \in 1..Len(NodeIds)}

\* A graph of the first n nodes; edges may name any id, present or not.
InitLayout ==
    /\ ParserIdle /\ codec = Idle /\ res = Idle /\ OthersIdle
    /\ \E n \in 0..Len(NodeIds), sz \in SizeProfiles, es \in SeqsUpTo(EdgeChoices, MaxEdges) :
         lay = [pc |-> "start",
                nodes |-> [i \in 1..n |-> [id |-> NodeIds[i], w |-> sz[i].w, h |-> sz[i].h,
                                           virtual |-> FALSE, x |-> 0, y |-> 0,
                                           layer |-> 0, order |-> 0]],
                edges |-> es,
                input |-> es,
                count |-> n,
                opts |-> DefaultOptions,
                adj |-> <<>>, color |-> <<>>, reversed |-> {}, dfs |-> <<>>,
                layers |-> <<>>, inDeg |-> <<>>, queue |-> <<>>, buckets |-> <<>>]

NextLayout ==
    \/ LayoutEmpty
    \/ LayoutStart
    \/ dfsRoot
    \/ dfsVisit
    \/ dfsReturn
    \/ markReversed
    \/ assignLayersInit
    \/ assignLayersStep
    \/ assignLayersReturn
    \/ LayoutVirtualNodes
    \/ LayoutOrder
    \/ LayoutCoordinates

SpecLayout == InitLayout /\ [][NextLayout]_vars

\* Layout is a sequential function: while a step is left, it is taken.
SpecLayoutFair == SpecLayout /\ WF_vars(NextLayout)

(***************************************************************************)
(* Properties of the layout                                                *)
(***************************************************************************)
\* The arcs of the input graph between nodes that exist, as index pairs.
InputArcs ==
    {<<buildNodeIndex(lay.nodes, lay.input[k].from), buildNodeIndex(lay.nodes, lay.input[k].to)>> :
        k \in {k \in 1..Len(lay.input) :
                  /\ buildNodeIndex(lay.nodes, lay.input[k].from) \in 1..lay.count
                  /\ buildNodeIndex(lay.nodes, lay.input[k].to) \in 1..lay.count}}

\* The nodes reachable from u along at least one arc of A.
RECURSIVE ReachFrom(_, _)
ReachFrom(front, A) ==
    LET next == front \cup {a[2] : a \in {b \in A : b[1] \in front}}
    IN IF next = front THEN front ELSE ReachFrom(next, A)
OnCycle(u, A) == u \in ReachFrom({a[2] : a \in {b \in A : b[1] = u}}, A)

InputAcyclic == \A u \in 1..lay.count : ~OnCycle(u, InputArcs)
\* A cycle through two or more nodes.
InputCyclic == \E u \in 1..lay.count : OnCycle(u, {a \in InputArcs : a[1] # a[2]})

\* assertNoOverlap for one pair of nodes.
Overlap(a, b) ==
    /\ a.x < b.x + b.w /\ b.x < a.x + a.w
    /\ a.y < b.y + b.h /\ b.y < a.y + a.h

\* C8: for an acyclic graph, after Layout no two non-virtual nodes of the
\* same layer have overlapping rectangles.
C8_NoOverlap ==
    (lay.pc = "done" /\ InputAcyclic) =>
        \A i, j \in 1..Len(lay.nodes) :
            (i < j /\ ~lay.nodes[i].virtual /\ ~lay.nodes[j].virtual
                   /\ lay.nodes[i].layer = lay.nodes[j].layer)
                => ~Overlap(lay.nodes[i], lay.nodes[j])

\* An acyclic graph with at least one real edge laid out with two real nodes
\* side by side in one layer (A -> B, A -> C for instance).
C8_Witness ==
    /\ lay.pc = "done" /\ InputAcyclic
    /\ \E i, j \in 1..Len(lay.nodes) :
          /\ i < j /\ ~lay.nodes[i].virtual /\ ~lay.nodes[j].virtual
          /\ lay.nodes[i].layer = lay.nodes[j].layer
          /\ lay.nodes[i].x # lay.nodes[j].x
    /\ \E e \in 1..Len(lay.input) : lay.input[e].from # lay.input[e].to

\* The node is in the bucket of its layer at its Order, at that layer's y.
LaidOut(i) ==
    /\ lay.nodes[i].layer + 1 \in 1..Len(lay.buckets)
    /\ lay.nodes[i].order + 1 \in 1..Len(lay.buckets[lay.nodes[i].layer + 1])
    /\ lay.buckets[lay.nodes[i].layer + 1][lay.nodes[i].order + 1] = i
    /\ \A j \in 1..Len(lay.nodes) :
          lay.nodes[j].layer = lay.nodes[i].layer => lay.nodes[j].y = lay.nodes[i].y

\* C9: Layout terminates on every graph, cyclic ones and ones with
\* self-loops included; a graph with a cycle ends with at least one edge
\* marked reversed, and a node with a self-loop is laid out like any other.
C9_CyclesTerminate ==
    /\ <>(lay.pc = "done")
    /\ [](lay.pc = "done" =>
            /\ InputCyclic => \E k \in 1..Len(lay.edges) : lay.edges[k].reversed
            /\ \A k \in 1..Len(lay.input) :
                  (lay.input[k].from = lay.input[k].to
                     /\ buildNodeIndex(lay.nodes, lay.input[k].from) \in 1..lay.count)
                  => LaidOut(buildNodeIndex(lay.nodes, lay.input[k].from)))

\* A -> B, B -> C, C -> A laid out with an edge reversed.
C9_Witness ==
    /\ lay.pc = "done" /\ lay.count = 3
    /\ [k \in 1..Len(lay.input) |-> <<lay.input[k].from, lay.input[k].to>>]
          = << <<"A", "B">>, <<"B", "C">>, <<"C", "A">> >>
    /\ \E k \in 1..3 : lay.edges[k].reversed

\* The arcs of the adjacency lists.
AdjArcs ==
    UNION {{<<u, lay.adj[u][k]>> : k \in 1..Len(lay.adj[u])} : u \in 1..Len(lay.adj)}

\* removeCycles has returned and assignLayers works on its adjacency.
AtLayerAssignment == lay.pc \in {"assignLayers", "queue"}

\* C18: the adjacency removeCycles hands to assignLayers has no directed
\* cycle (and no self-loop), whatever the input graph.
C18_AdjacencyAcyclic ==
    AtLayerAssignment => \A u \in 1..Len(lay.adj) : ~OnCycle(u, AdjArcs)

\* The cycle A -> B, B -> C, C -> A has been through removeCycles.
C18_Witness ==
    /\ AtLayerAssignment /\ lay.count = 3
    /\ InputArcs = {<<1, 2>>, <<2, 3>>, <<3, 1>>}
    /\ AdjArcs # {}

\* C19: for every back edge u -> v that removeCycles recorded as reversed,
\* the arc v -> u is in the adjacency assignLayers works on.
C19_ReversedArcPresent ==
    AtLayerAssignment => \A key \in lay.reversed : <<key[2], key[1]>> \in AdjArcs

(***************************************************************************)
(* Theme resolver: callers of SetSkinparam and ResolveColor                 *)
(***************************************************************************)
\* The skinparam names and values callers use, the properties they ask for.
SkinparamNames == {"classBackgroundColor", "ClassBackgroundColor", "arrowColor", "Shadowing"}
SkinparamValues == {"#112233", "#445566", ""}
Properties == {"ClassBackgroundColor", "ArrowColor", "FontSize", "Shadowing"}
\* The names and values of integer skinparams, the integer properties asked
\* for and the defaults their callers pass.
IntSkinparamNames == {"defaultFontSize", "FontSize"}
IntSkinparamValues == {"0", "12", "1a"}
IntProperties == {"FontSize", "Shadowing"}
IntDefaults == {0, 7}
\* The themes a resolver is made with: none, Darcula, and themes with empty fields.
Themes ==
    { <<>>, <<Darcula>>,
      <<[Darcula EXCEPT !.ClassBackgroundColor = ""]>>,
      <<[ClassBackgroundColor |-> "#ABCDEF", ArrowColor |-> "", FontName |-> "", FontSize |-> 0]>> }

\* A caller sets a skinparam.
CallSetSkinparam ==
    /\ res.pc \in {"ready", "resolved", "resolvedInt"}
    /\ \E s \in (SkinparamNames \X SkinparamValues) \cup
                 (IntSkinparamNames \X IntSkinparamValues) :
         res' = [res EXCEPT !.pc = "ready", !.r = SetSkinparam(res.r, s[1], s[2]),
                            !.property = "", !.result = "", !.fallback = 0, !.n = 0]
    /\ UNCHANGED <<pvars, codec, lay, xvars>>

\* A caller resolves a colour.
CallResolveColor ==
    /\ res.pc \in {"ready", "resolved", "resolvedInt"}
    /\ \E property \in Properties :
         res' = [res EXCEPT !.pc = "resolved", !.property = property,
                            !.result = ResolveColor(res.r, property),
                            !.fallback = 0, !.n = 0]
    /\ UNCHANGED <<pvars, codec, lay, xvars>>

\* A caller resolves an integer.
CallResolveInt ==
    /\ res.pc \in {"ready", "resolved", "resolvedInt"}
    /\ \E property \in IntProperties, fallback \in IntDefaults :
         res' = [res EXCEPT !.pc = "resolvedInt", !.property = property, !.result = "",
                            !.fallback = fallback,
                            !.n = ResolveInt(res.r, property, fallback)]
    /\ UNCHANGED <<pvars, codec, lay, xvars>>

InitTheme ==
    /\ ParserIdle /\ codec = Idle /\ lay = Idle /\ OthersIdle
    /\ \E t \in Themes :
         res = [pc |-> "ready", r |-> NewResolver(t), property |-> "", result |-> "",
                fallback |-> 0, n |-> 0]

NextTheme == CallSetSkinparam \/ CallResolveColor \/ CallResolveInt

SpecTheme == InitTheme /\ [][NextTheme]_vars

\* The values set as skinparam for property p, under its PlantUML name or
\* under the property name itself.
Overrides(p) ==
    {res.r.skinparams[n] :
        n \in DOMAIN res.r.skinparams \cap
              ({p} \cup (IF p \in DOMAIN skinparamKeys THEN {skinparamKeys[p]} ELSE {}))}

\* C10: ResolveColor(p) returns the skinparam override for p if one is set
\* (under its PlantUML name or under the property name), otherwise the
\* theme's value if that is not empty, otherwise the fallback theme's value.
C10_Precedence ==
    res.pc = "resolved" =>
        IF Overrides(res.property) # {} THEN res.result \in Overrides(res.property)
        ELSE IF fieldByName(res.r.theme, res.property) # ""
             THEN res.result = fieldByName(res.r.theme, res.property)
             ELSE res.result = fieldByName(res.r.fallback, res.property)

\* With Darcula, classBackgroundColor set to #112233 overrides #3C3F41.
C10_Witness ==
    /\ res.pc = "resolved" /\ res.r.theme = Darcula
    /\ DOMAIN res.r.skinparams = {"classBackgroundColor"}
    /\ res.r.skinparams["classBackgroundColor"] = "#112233"
    /\ res.property = "ClassBackgroundColor" /\ res.result = "#112233"

\* The value the theme tiers give property p: the theme's if it is not 0,
\* otherwise the fallback theme's if it is not 0, otherwise the caller's default.
ThemeTiers(p, default) ==
    IF intFieldByName(res.r.theme, p) # 0 THEN intFieldByName(res.r.theme, p)
    ELSE IF intFieldByName(res.r.fallback, p) # 0 THEN intFieldByName(res.r.fallback, p)
    ELSE default

patterns ==
    << [method |-> "POST", path |-> "/render", handler |-> "handleRender"],
       [method |-> "GET", path |-> "/svg/{encoded...}", handler |-> "handleSVG"],
       [method |-> "GET", path |-> "/", handler |-> "handleEditor"] >>

\* The request paths of this model; "/svg/" stands for /svg/ followed by the
\* encoded segment of the request.
Paths == {"/", "/render", "/svg/", "/nonexistent"}
Methods == {"GET", "HEAD", "POST", "PUT"}

\* A pattern path matches a request path: "/" is a subtree and matches every
\* path, a trailing wildcard matches every path under its prefix.
pathMatches(pat, path) ==
    CASE pat = "/" -> TRUE
      [] pat = "/svg/{encoded...}" -> path = "/svg/"
      [] OTHER -> pat = path

\* A pattern method matches a request method: GET also matches HEAD.
methodMatches(pm, m) == pm = m \/ (pm = "GET" /\ m = "HEAD")

\* A mutation of muxHandler: the method of the pattern is not looked at.
muxHandlerAnyMethod(method, path) ==
    LET byPath == {i \in 1..Len(patterns) : pathMatches(patterns[i].path, path)}
    IN patterns[CHOOSE i \in byPath : \A j \in byPath : i <= j].handler

\* The handler the ServeMux of New picks: the most specific pattern matching
\* method and path; "405" if patterns match the path but none the method.
muxHandler(method, path) ==
    LET byPath == {i \in 1..Len(patterns) : pathMatches(patterns[i].path, path)}
        both == {i \in byPath : methodMatches(patterns[i].method, method)}
    IN IF both # {} THEN patterns[CHOOSE i \in both : \A j \in both : i <= j].handler
       ELSE IF byPath # {} THEN "405"
       ELSE "404"

\* http.Error
httpError(msg, code) ==
    [status |-> code, ctype |-> "text/plain; charset=utf-8", body |-> msg]

\* A mutation of errorDetails: only the first diagnostic is reported.
errorDetailsFirstOnly(errs) ==
    [i \in 1..1 |-> [Line |-> errs[i].line, Column |-> errs[i].idx, Message |-> errs[i].msg]]

\* resp.Errors of handleRender: one errorDetail per diagnostic, in order.
errorDetails(errs) ==
    [i \in 1..Len(errs) |->
        [Line |-> errs[i].line, Column |-> errs[i].idx, Message |-> errs[i].msg]]

\* The ServeMux finds no pattern for the method.
MethodNotAllowed ==
    /\ srv.pc = "request"
    /\ muxHandler(srv.req.method, srv.req.path) = "405"
    /\ srv' = [srv EXCEPT !.pc = "done", !.handler = "405",
                          !.resp = httpError("Method Not Allowed", 405)]
    /\ UNCHANGED <<pvars, codec, lay, res, cli, font, sq, cr, cls>>

\* handleEditor
handleEditor ==
    /\ srv.pc = "request"
    /\ muxHandler(srv.req.method, srv.req.path) = "handleEditor"
    /\ srv' = [srv EXCEPT !.pc = "done", !.handler = "handleEditor",
                 !.resp = IF srv.req.path # "/" THEN httpError("404 page not found", 404)
                          ELSE [status |-> 200, ctype |-> "text/html; charset=utf-8",
                                body |-> "static/index.html"]]
    /\ UNCHANGED <<pvars, codec, lay, res, cli, font, sq, cr, cls>>

\* The parser is started on a text (lexer.New, Tokenize, parser.New).
StartParse(text) ==
    /\ input' = text
    /\ tokens' = Tokenize(text)
    /\ ppc' = "init"
    /\ UNCHANGED <<readErr, pos, errors, seqMode, stack, handle, renderer>>

\* handleRender up to the call of Validate.
handleRender ==
    /\ srv.pc = "request"
    /\ muxHandler(srv.req.method, srv.req.path) = "handleRender"
    /\ IF srv.req.readFails
       THEN /\ srv' = [srv EXCEPT !.pc = "done", !.handler = "handleRender",
                                  !.resp = httpError("failed to read body", 400)]
            /\ UNCHANGED pvars
       ELSE /\ srv' = [srv EXCEPT !.pc = "validate", !.handler = "handleRender"]
            /\ StartParse(srv.req.body)
    /\ UNCHANGED <<codec, lay, res, cli, font, sq, cr, cls>>

\* handleRender after Validate: the diagnostics as JSON, or Render (whose own
\* parse of the same body gives the same diagram) writing the SVG.
handleRenderReturn ==
    /\ srv.pc = "validate" /\ ppc = "parsed"
    /\ IF errors # <<>>
       THEN /\ srv' = [srv EXCEPT !.pc = "done",
                          !.resp = [status |-> 400, ctype |-> "application/json",
                                    body |-> [errors |-> errorDetails(errors)]]]
            /\ UNCHANGED pvars
       ELSE /\ \E writeFails \in BOOLEAN :
                 srv' = [srv EXCEPT !.pc = "done", !.writeFails = writeFails,
                            !.resp = IF writeFails THEN httpError("render error", 500)
                                     ELSE [status |-> 200, ctype |-> "image/svg+xml",
                                           body |-> "svg"]]
            /\ renderer' = IF isSequenceDiagram(handle[1].internal)
                           THEN "sequence" ELSE "class"
            /\ ppc' = "rendered"
            /\ UNCHANGED <<input, readErr, tokens, pos, errors, seqMode, stack, handle>>
    /\ UNCHANGED <<codec, lay, res, cli, font, sq, cr, cls>>

\* handleSVG up to the call of Render.  The encoded segment is named by what
\* encoding.Decode makes of it: missing, not decodable, or the text it holds.
handleSVG ==
    /\ srv.pc = "request"
    /\ muxHandler(srv.req.method, srv.req.path) = "handleSVG"
    /\ CASE srv.req.encoded.kind = "missing" ->
              /\ srv' = [srv EXCEPT !.pc = "done", !.handler = "handleSVG",
                                    !.resp = httpError("missing encoded diagram", 400)]
              /\ UNCHANGED pvars
         [] srv.req.encoded.kind = "invalid" ->
              /\ srv' = [srv EXCEPT !.pc = "done", !.handler = "handleSVG",
                                    !.resp = httpError("decode error", 400)]
              /\ UNCHANGED pvars
         [] OTHER ->
              /\ srv' = [srv EXCEPT !.pc = "render", !.handler = "handleSVG"]
              /\ StartParse(srv.req.encoded.text)
    /\ UNCHANGED <<codec, lay, res, cli, font, sq, cr, cls>>

\* handleSVG after the parse of Render: Render returns the first diagnostic,
\* or the error of the write, and the handler answers 500; otherwise the SVG.
handleSVGReturn ==
    /\ srv.pc = "render" /\ ppc = "parsed"
    /\ IF errors # <<>>
       THEN /\ srv' = [srv EXCEPT !.pc = "done", !.resp = httpError("render error", 500)]
            /\ UNCHANGED pvars
       ELSE /\ \E writeFails \in BOOLEAN :
                 srv' = [srv EXCEPT !.pc = "done", !.writeFails = writeFails,
                            !.resp = IF writeFails THEN httpError("render error", 500)
                                     ELSE [status |-> 200, ctype |-> "image/svg+xml",
                                           body |-> "svg"]]
            /\ renderer' = IF isSequenceDiagram(handle[1].internal)
                           THEN "sequence" ELSE "class"
            /\ ppc' = "rendered"
            /\ UNCHANGED <<input, readErr, tokens, pos, errors, seqMode, stack, handle>>
    /\ UNCHANGED <<codec, lay, res, cli, font, sq, cr, cls>>

\* The lines of the request bodies.
BodyTemplates ==
    { <<"A", "->", "B">>, <<"A">>, <<"$", "A">>, <<"alt">>, <<"else">>, <<"end">>,
      <<"package", "P", "{">>, <<"}">> }

NoResponse == [status |-> 0, ctype |-> "", body |-> ""]

ServerStart(method, path, body, readFails, encoded) ==
    [pc |-> "request", handler |-> "", writeFails |-> FALSE, resp |-> NoResponse,
     req |-> [method |-> method, path |-> path, body |-> body, readFails |-> readFails,
              encoded |-> encoded]]

NoSegment == [kind |-> "missing", text |-> <<>>]

\* Every request of Methods x Paths; POST /render comes with a body (or with
\* one that cannot be read), a path under /svg/ with an encoded segment.
InitServer ==
    /\ ParserIdle /\ codec = Idle /\ lay = Idle /\ res = Idle
    /\ cli = Idle /\ font = Idle /\ sq = Idle /\ cr = Idle /\ cls = Idle
    /\ \E method \in Methods, path \in Paths :
         \/ /\ path = "/render" /\ method = "POST"
            /\ \/ srv = ServerStart(method, path, <<>>, TRUE, NoSegment)
               \/ \E hdr \in BOOLEAN, end \in BOOLEAN, ls \in SeqsUpTo(BodyTemplates, MaxLines) :
                    srv = ServerStart(method, path, InputOf(hdr, end, ls), FALSE, NoSegment)
         \/ /\ path = "/svg/"
            /\ \/ \E kind \in {"missing", "invalid"} :
                    srv = ServerStart(method, path, <<>>, FALSE, [kind |-> kind, text |-> <<>>])
               \/ \E hdr \in BOOLEAN, end \in BOOLEAN, ls \in SeqsUpTo(BodyTemplates, MaxLines) :
                    srv = ServerStart(method, path, <<>>, FALSE,
                                      [kind |-> "text", text |-> InputOf(hdr, end, ls)])
         \/ /\ path # "/svg/" /\ ~(path = "/render" /\ method = "POST")
            /\ srv = ServerStart(method, path, <<>>, FALSE, NoSegment)

NextServer ==
    \/ MethodNotAllowed
    \/ handleEditor
    \/ handleRender
    \/ handleRenderReturn
    \/ handleSVG
    \/ handleSVGReturn
    \/ parseDiagram
    \/ parseStatement
    \/ parseFragment
    \/ parseElsePart
    \/ parseElsePartReturn
    \/ parseFragmentReturn
    \/ parsePackage
    \/ parsePackageReturn
    \/ parseDiagramReturn

SpecServer == InitServer /\ [][NextServer]_vars

(***************************************************************************)
(* Properties of the HTTP service                                          *)
(***************************************************************************)
Answered == srv.pc = "done"

\* C13: POST /render with a readable body answers 400, application/json and
\* every diagnostic of the body in order when the body has a diagnostic, and
\* otherwise (the empty body included) 200, image/svg+xml and the SVG, if
\* the SVG can be written.
C13_RenderValidatesFirst ==
    (Answered /\ srv.handler = "handleRender" /\ ~srv.req.readFails) =>
        IF errors # <<>>
        THEN /\ srv.resp.status = 400 /\ srv.resp.ctype = "application/json"
             /\ Len(srv.resp.body.errors) = Len(errors)
             /\ \A i \in 1..Len(errors) :
                    /\ srv.resp.body.errors[i].Line = errors[i].line
                    /\ srv.resp.body.errors[i].Column = errors[i].idx
                    /\ srv.resp.body.errors[i].Message = errors[i].msg
        ELSE ~srv.writeFails =>
                 /\ srv.resp.status = 200 /\ srv.resp.ctype = "image/svg+xml"
                 /\ srv.resp.body = "svg"

\* The body `A` has two diagnostics, and both are in the 400 answer.
C13_Witness ==
    /\ Answered /\ srv.handler = "handleRender" /\ srv.req.body = <<"A">>
    /\ srv.resp.status = 400 /\ Len(srv.resp.body.errors) = 2

\* The empty body is answered with 200 and the SVG.
C13_WitnessEmptyBody ==
    /\ Answered /\ srv.handler = "handleRender" /\ srv.req.body = <<>> /\ ~srv.req.readFails
    /\ srv.resp.status = 200

\* C14: on POST /render and on GET /svg/{encoded} a diagram with a parse
\* diagnostic is answered with 400 and the JSON list of diagnostics, and
\* 500 is answered only when writing the output fails.
C14_DiagnosticsAre400 ==
    (Answered /\ srv.handler \in {"handleRender", "handleSVG"}) =>
        /\ (ppc \in {"parsed", "rendered"} /\ errors # <<>>) =>
               (srv.resp.status = 400 /\ srv.resp.ctype = "application/json")
        /\ srv.resp.status = 500 => srv.writeFails

exitSuccess == 0
exitValidation == 1
exitSystem == 2

\* strings.HasPrefix(a, "-") for the arguments of this model.
hasDashPrefix(a) == a \in {"-", "-o", "-h", "--help", "--port"}

\* parseRenderArgs from argument i on, with the values found so far.
RECURSIVE parseRenderArgsFrom(_, _, _, _)
parseRenderArgsFrom(args, i, outputFile, inputPath) ==
    IF i > Len(args) THEN [outputFile |-> outputFile, inputPath |-> inputPath]
    ELSE IF args[i] = "-o" /\ i + 1 <= Len(args)
         THEN parseRenderArgsFrom(args, i + 2, args[i + 1], inputPath)
    ELSE IF args[i] = "--help" \/ args[i] = "-h"
         THEN [outputFile |-> "", inputPath |-> ""]
    ELSE IF args[i] = "-" \/ ~hasDashPrefix(args[i])
         THEN parseRenderArgsFrom(args, i + 1, outputFile, args[i])
    ELSE parseRenderArgsFrom(args, i + 1, outputFile, inputPath)

parseRenderArgs(args) == parseRenderArgsFrom(args, 1, "", "")

\* Error() of a facade diagnostic, "%d:%d: %s", and of the *fs.PathError of a
\* failed write, op + " " + path + ": " + text, as the parts they are made of
\* ("%d" stands for the digits of a number).
diagnosticText(e) == <<"%d", ":", "%d", ":", " ", e.msg>>
pathErrorText(op, path) == <<op, " ", path, ":", " ", "input/output error">>

\* isValidationError: strings.Contains(err.Error(), ":")
isValidationError(err) == \E i \in 1..Len(err) : err[i] = ":"

Exit(code) == [cli EXCEPT !.pc = "exited", !.code = code]

\* main, for the commands that need no file: no command, version, help and
\* an unknown command.
main ==
    /\ cli.pc = "start"
    /\ IF Len(cli.args) < 1 THEN TRUE
       ELSE cli.args[1] \notin {"render", "validate", "serve"}
    /\ cli' = IF Len(cli.args) < 1 THEN Exit(exitSystem)
              ELSE IF cli.args[1] \in {"version", "help", "--help", "-h"} THEN Exit(exitSuccess)
              ELSE Exit(exitSystem)
    /\ UNCHANGED <<pvars, codec, lay, res, srv, font, sq, cr, cls>>

\* The facade's Parse is started on the reader of the input file.
StartFileParse ==
    /\ input' = IF cli.file = "ok" THEN cli.content ELSE <<>>
    /\ tokens' = Tokenize(IF cli.file = "ok" THEN cli.content ELSE <<>>)
    /\ readErr' = (cli.file = "unreadable")
    /\ ppc' = "init"
    /\ UNCHANGED <<pos, errors, seqMode, stack, handle, renderer>>

\* cmdRender up to the call of gouml.Render.
cmdRender ==
    /\ cli.pc = "start" /\ Len(cli.args) >= 1 /\ cli.args[1] = "render"
    /\ LET a == parseRenderArgs(Tail(cli.args))
       IN IF a.inputPath = "" THEN cli' = Exit(exitSystem) /\ UNCHANGED pvars
          ELSE IF a.inputPath # "-" /\ cli.file = "missing"
               THEN cli' = Exit(exitSystem) /\ UNCHANGED pvars
          ELSE IF a.outputFile # "" /\ cli.createFails
               THEN cli' = Exit(exitSystem) /\ UNCHANGED pvars
          ELSE /\ cli' = [cli EXCEPT !.pc = "render",
                                     !.out = IF a.outputFile # "" THEN a.outputFile
                                             ELSE "/dev/stdout"]
               /\ StartFileParse
    /\ UNCHANGED <<codec, lay, res, srv, font, sq, cr, cls>>

\* cmdRender after the parse of gouml.Render: Render returns the first
\* diagnostic, or renders and returns the error of a failed write.
cmdRenderReturn ==
    /\ cli.pc = "render" /\ ppc = "parsed"
    /\ IF errors # <<>>
       THEN /\ cli' = IF isValidationError(diagnosticText(errors[1]))
                      THEN Exit(exitValidation) ELSE Exit(exitSystem)
            /\ UNCHANGED pvars
       ELSE /\ \E writeFails \in BOOLEAN :
                 cli' = IF ~writeFails THEN [Exit(exitSuccess) EXCEPT !.writeFails = FALSE]
                        ELSE IF isValidationError(pathErrorText("write", cli.out))
                        THEN [Exit(exitValidation) EXCEPT !.writeFails = TRUE]
                        ELSE [Exit(exitSystem) EXCEPT !.writeFails = TRUE]
            /\ renderer' = IF isSequenceDiagram(handle[1].internal)
                           THEN "sequence" ELSE "class"
            /\ ppc' = "rendered"
            /\ UNCHANGED <<input, readErr, tokens, pos, errors, seqMode, stack, handle>>
    /\ UNCHANGED <<codec, lay, res, srv, font, sq, cr, cls>>

\* cmdValidate up to the call of gouml.Validate (no flag is defined, the
\* arguments of this model have none).
cmdValidate ==
    /\ cli.pc = "start" /\ Len(cli.args) >= 1 /\ cli.args[1] = "validate"
    /\ IF Len(cli.args) = 1 THEN cli' = Exit(exitSystem) /\ UNCHANGED pvars
       ELSE IF cli.file = "missing" THEN cli' = Exit(exitSystem) /\ UNCHANGED pvars
       ELSE /\ cli' = [cli EXCEPT !.pc = "validate"]
            /\ StartFileParse
    /\ UNCHANGED <<codec, lay, res, srv, font, sq, cr, cls>>

\* cmdValidate after Validate.
cmdValidateReturn ==
    /\ cli.pc = "validate" /\ ppc = "parsed"
    /\ cli' = IF errors # <<>> THEN Exit(exitValidation) ELSE Exit(exitSuccess)
    /\ UNCHANGED <<pvars, codec, lay, res, srv, font, sq, cr, cls>>

\* cmdServe: a flag that does not parse, or ListenAndServe returning the
\* error of the bind; a server that is bound does not return.
cmdServe ==
    /\ cli.pc = "start" /\ Len(cli.args) >= 1 /\ cli.args[1] = "serve"
    /\ cli' = IF cli.args \notin {<<"serve">>, <<"serve", "--port", "8081">>}
              THEN Exit(exitSystem)
              ELSE IF cli.bindFails THEN Exit(exitSystem)
              ELSE [cli EXCEPT !.pc = "serving"]
    /\ UNCHANGED <<pvars, codec, lay, res, srv, font, sq, cr, cls>>

\* os.Args[1:] of the runs.
ArgLists ==
    { <<>>, <<"version">>, <<"help">>, <<"bogus">>,
      <<"render">>, <<"render", "in.puml">>, <<"render", "-">>,
      <<"render", "in.puml", "-o", "out.svg">>, <<"render", "-o", "out.svg", "in.puml">>,
      <<"validate">>, <<"validate", "in.puml">>,
      <<"serve">>, <<"serve", "--port", "8081">>, <<"serve", "--port", "x">> }

CliStart(args, file, content, createFails, bindFails) ==
    [pc |-> "start", args |-> args, file |-> file, content |-> content,
     createFails |-> createFails, bindFails |-> bindFails, writeFails |-> FALSE,
     out |-> "", code |-> -1]

\* Every argument list with every state of its environment.
InitCLI ==
    /\ ParserIdle /\ codec = Idle /\ lay = Idle /\ res = Idle
    /\ srv = Idle /\ font = Idle /\ sq = Idle /\ cr = Idle /\ cls = Idle
    /\ \E args \in ArgLists :
         IF Len(args) >= 2 /\ args[1] \in {"render", "validate"}
         THEN \/ \E file \in {"missing", "unreadable"}, createFails \in BOOLEAN :
                   cli = CliStart(args, file, <<>>, createFails, FALSE)
              \/ \E hdr \in BOOLEAN, end \in BOOLEAN, ls \in SeqsUpTo(BodyTemplates, MaxLines),
                    createFails \in BOOLEAN :
                   cli = CliStart(args, "ok", InputOf(hdr, end, ls), createFails, FALSE)
         ELSE \E bindFails \in BOOLEAN :
                   cli = CliStart(args, "missing", <<>>, FALSE, bindFails)

NextCLI ==
    \/ main
    \/ cmdRender
    \/ cmdRenderReturn
    \/ cmdValidate
    \/ cmdValidateReturn
    \/ cmdServe
    \/ ParseReadError
    \/ parseDiagram
    \/ parseStatement
    \/ parseFragment
    \/ parseElsePart
    \/ parseElsePartReturn
    \/ parseFragmentReturn
    \/ parsePackage
    \/ parsePackageReturn
    \/ parseDiagramReturn

SpecCLI == InitCLI /\ [][NextCLI]_vars

(***************************************************************************)
(* Properties of the command-line tool                                     *)
(***************************************************************************)
Exited == cli.pc = "exited"

\* The run names a file to render or to validate.
NamesFile ==
    /\ Len(cli.args) >= 2 /\ cli.args[1] \in {"render", "validate"}

\* The system errors of a run: a bad invocation, an unknown subcommand, an
\* input file that cannot be opened or cannot be read, an output file that
\* cannot be created, a bind failure.
BadInvocation ==
    \/ cli.args \in {<<>>, <<"render">>, <<"validate">>, <<"serve", "--port", "x">>}
UnknownSubcommand == Len(cli.args) >= 1 /\ cli.args[1] = "bogus"
UnreadableFile ==
    /\ NamesFile
    /\ \/ cli.file = "unreadable"
       \/ cli.file = "missing" /\ cli.args # <<"render", "-">>
OutputNotCreated == NamesFile /\ cli.args[1] = "render" /\ Len(cli.args) = 4 /\ cli.createFails
BindFailure == Len(cli.args) >= 1 /\ cli.args[1] = "serve" /\ cli.bindFails
SystemError ==
    BadInvocation \/ UnknownSubcommand \/ UnreadableFile \/ OutputNotCreated \/ BindFailure

\* C16: a run that exits without a failed write exits 2 if it met a system
\* error, otherwise 1 if the diagram has diagnostics, otherwise 0.
C16_ExitCodes ==
    (Exited /\ ~cli.writeFails) =>
        cli.code = IF SystemError THEN exitSystem
                   ELSE IF NamesFile /\ errors # <<>> THEN exitValidation
                   ELSE exitSuccess

\* The exit codes without the input that opens and cannot be read.
C16_ExitCodesReadable ==
    (Exited /\ ~cli.writeFails /\ cli.file # "unreadable") =>
        cli.code = IF SystemError THEN exitSystem
                   ELSE IF NamesFile /\ errors # <<>> THEN exitValidation
                   ELSE exitSuccess

(***************************************************************************)
(* Font cache (internal/font): parsedFont under parsedFontsMu, called by   *)
(* concurrent MeasureText calls.  A parsed font is named by its position   *)
(* in the list of the parses of the process.                               *)
(***************************************************************************)
MaxCalls == 2
Goroutines == {1, 2}
FamilySans == "sans"
FamilyMono == "mono"
FamilyBold == "bold"
\* The family values callers pass; "unknown" is none of the three constants.
Families == {FamilySans, FamilyMono, FamilyBold, "unknown"}

\* The embedded font file parsedFont picks for a family.
fontData(family) ==
    CASE family = FamilyMono -> "gomono.TTF"
      [] family = FamilyBold -> "gobold.TTF"
      [] OTHER -> "goregular.TTF"

\* A mutation of mutexFree: Lock never waits.
mutexFreeAlways(mu) == TRUE

\* sync.Mutex: Lock returns only when no goroutine holds the mutex.
mutexFree(mu) == mu = 0

\* A goroutine calls MeasureText -> newFace -> parsedFont.
MeasureText ==
    \E i \in Goroutines, family \in Families :
        /\ font.g[i].pc \in {"idle", "done"} /\ font.g[i].calls < MaxCalls
        /\ font' = [font EXCEPT !.g[i] = [pc |-> "lock", family |-> family, f |-> 0,
                                          calls |-> font.g[i].calls + 1]]
        /\ UNCHANGED <<pvars, codec, lay, res, srv, cli, sq, cr, cls>>

\* parsedFontsMu.Lock()
parsedFontLock ==
    \E i \in Goroutines :
        /\ font.g[i].pc = "lock" /\ mutexFree(font.mu)
        /\ font' = [font EXCEPT !.mu = i, !.g[i].pc = "lookup"]
        /\ UNCHANGED <<pvars, codec, lay, res, srv, cli, sq, cr, cls>>

\* if f, ok := parsedFonts[family]; ok { return f, nil }
parsedFontLookup ==
    \E i \in Goroutines :
        /\ font.g[i].pc = "lookup"
        /\ font' = IF font.g[i].family \in DOMAIN font.parsedFonts
                   THEN [font EXCEPT !.g[i].f = font.parsedFonts[font.g[i].family],
                                     !.g[i].pc = "unlock"]
                   ELSE [font EXCEPT !.g[i].pc = "parse"]
        /\ UNCHANGED <<pvars, codec, lay, res, srv, cli, sq, cr, cls>>

\* f, err := opentype.Parse(data): the embedded file parses, a new font.
opentypeParse ==
    \E i \in Goroutines :
        /\ font.g[i].pc = "parse"
        /\ font' = [font EXCEPT
                       !.parsed = Append(@, [family |-> font.g[i].family,
                                             data |-> fontData(font.g[i].family)]),
                       !.g[i].f = Len(font.parsed) + 1,
                       !.g[i].pc = "store"]
        /\ UNCHANGED <<pvars, codec, lay, res, srv, cli, sq, cr, cls>>

\* parsedFonts[family] = f
parsedFontStore ==
    \E i \in Goroutines :
        /\ font.g[i].pc = "store"
        /\ font' = [font EXCEPT
                       !.parsedFonts =
                           [fam \in DOMAIN font.parsedFonts \cup {font.g[i].family} |->
                               IF fam = font.g[i].family THEN font.g[i].f
                               ELSE font.parsedFonts[fam]],
                       !.g[i].pc = "unlock"]
        /\ UNCHANGED <<pvars, codec, lay, res, srv, cli, sq, cr, cls>>

\* The deferred parsedFontsMu.Unlock(); the caller goes on to measure.
parsedFontUnlock ==
    \E i \in Goroutines :
        /\ font.g[i].pc = "unlock"
        /\ font' = [font EXCEPT !.mu = 0, !.g[i].pc = "measure"]
        /\ UNCHANGED <<pvars, codec, lay, res, srv, cli, sq, cr, cls>>

\* newFace and the measurement with the font parsedFont returned.
MeasureTextReturn ==
    \E i \in Goroutines :
        /\ font.g[i].pc = "measure"
        /\ font' = [font EXCEPT !.g[i].pc = "done"]
        /\ UNCHANGED <<pvars, codec, lay, res, srv, cli, sq, cr, cls>>

InitFont ==
    /\ ParserIdle /\ codec = Idle /\ lay = Idle /\ res = Idle
    /\ srv = Idle /\ cli = Idle /\ sq = Idle /\ cr = Idle /\ cls = Idle
    /\ font = [mu |-> 0, parsedFonts |-> [fam \in {} |-> 0], parsed |-> <<>>,
               g |-> [i \in Goroutines |->
                         [pc |-> "idle", family |-> "", f |-> 0, calls |-> 0]]]

NextFont ==
    \/ MeasureText
    \/ parsedFontLock
    \/ parsedFontLookup
    \/ opentypeParse
    \/ parsedFontStore
    \/ parsedFontUnlock
    \/ MeasureTextReturn

SpecFont == InitFont /\ [][NextFont]_vars

(***************************************************************************)
(* Properties of the font cache                                            *)
(***************************************************************************)
\* The parses of the process of an embedded file, and for a family value.
ParsesOfData(data) == {k \in 1..Len(font.parsed) : font.parsed[k].data = data}
ParsesOfFamily(family) == {k \in 1..Len(font.parsed) : font.parsed[k].family = family}

\* C17 as stated: each embedded font file is parsed at most once, a family
\* value other than Mono or Bold counting as Sans.
C17_Original ==
    \A data \in {fontData(fam) : fam \in Families} : Cardinality(ParsesOfData(data)) <= 1

\* C17: under any interleaving of MeasureText calls the font of each family
\* value is parsed at most once, and every caller measures with the cached
\* font of the family value it passed.
C17_OncePerFamily ==
    /\ \A fam \in Families : Cardinality(ParsesOfFamily(fam)) <= 1
    /\ \A i \in Goroutines :
           font.g[i].pc \in {"measure", "done"} =>
               /\ font.g[i].family \in DOMAIN font.parsedFonts
               /\ font.g[i].f = font.parsedFonts[font.g[i].family]

\* Both goroutines asked for the sans font in their first call and measured
\* with the one font that was parsed.
C17_Witness ==
    /\ font.g[1].pc = "done" /\ font.g[2].pc = "done"
    /\ font.g[1].family = FamilySans /\ font.g[2].family = FamilySans
    /\ font.g[1].calls = 1 /\ font.g[2].calls = 1
    /\ Len(font.parsed) = 1 /\ font.g[1].f = 1 /\ font.g[2].f = 1

(***************************************************************************)
(* Parser: identifier lines without an arrow                               *)
(***************************************************************************)
\* The statement loop is at an identifier that is not followed by an arrow.
AtBareIdent ==
    /\ ppc = "parsing" /\ ~LoopExits
    /\ LoopTok.type = "Ident"
    /\ current(LoopPos + 1).type # "Arrow"

\* The step absorbs the identifier line as a Comment carrying the bare name.
AbsorbedAsComment ==
    /\ errors' = errors
    /\ AppendedOne
    /\ Appended.kind = "Comment" /\ Appended.name = LoopTok.lit

\* C25 as claimed: a line that starts with an identifier not followed by an
\* arrow never produces a diagnostic and becomes a Comment with the bare
\* name, whatever statements precede it.
C25_Original == [][AtBareIdent => AbsorbedAsComment]_vars

\* C25 amended: outside sequence mode a line that starts with an identifier
\* not followed by an arrow produces no diagnostic and becomes a Comment with
\* the bare name; in sequence mode it produces exactly one diagnostic
\* "unexpected identifier" at the identifier and no statement.  Either way
\* parsing resumes at the next line.
C25_BareIdentifier ==
    [][AtBareIdent =>
        /\ pos' = NextLineStart(LoopPos)
        /\ IF seqMode
           THEN /\ errors' = Append(errors, addError(LoopTok, "unexpected identifier"))
                /\ stack' = stack
           ELSE AbsorbedAsComment]_vars

\* "@startuml\nA\nparticipant A\nA\n@enduml": the bare line before the
\* participant is a Comment, the one after it is diagnosed.
C25_Witness ==
    /\ ParseDone /\ handle # <<>>
    /\ Len(errors) = 1 /\ errors[1].msg = "unexpected identifier" /\ errors[1].line = 4
    /\ Len(handle[1].internal.Statements) = 2
    /\ handle[1].internal.Statements[1].kind = "Comment"
    /\ handle[1].internal.Statements[1].name = "A"
    /\ handle[1].internal.Statements[2].kind = "Participant"

(***************************************************************************)
(* Parser: termination of the statement loops                              *)
(***************************************************************************)
\* Twice the number of tokens not yet consumed, plus the number of parse
\* functions that are active.
ParseVariant == 2 * (Len(tokens) + 1 - pos) + Len(stack)

\* C26: parsing terminates on every finite token sequence: an iteration of
\* the statement loop of parseDiagram, parsePackage, parseFragment or
\* parseElsePart (class bodies are parsed inside one iteration) consumes at
\* least one token; a loop that does not iterate is left: its function
\* returns, or parseFragment enters an else-part by consuming `else`.  So
\* every step of the parser strictly decreases a measure that is never
\* negative, unclosed braces and fragments, stray else, end and }, and a
\* missing @enduml included.
C26_ParsingTerminates ==
    [][ppc = "parsing" =>
        /\ ~LoopExits => pos' > LoopPos
        /\ LoopExits => (Len(stack') < Len(stack) \/ pos' > LoopPos)
        /\ ParseVariant' < ParseVariant
        /\ ParseVariant' >= 0]_vars

\* Parse has returned for "@startuml\npackage P {\nalt\nelse": an unclosed
\* else-part in an unclosed fragment in an unclosed package, without @enduml.
C26_Witness ==
    /\ ParseDone
    /\ Len(errors) = 3
    /\ errors[1].msg = "expected 'end' to close fragment"
    /\ errors[2].msg = "expected closing } for package"
    /\ errors[3].msg = "expected @enduml before end of input"
    /\ handle # <<>> /\ Len(handle[1].internal.Statements) = 1
    /\ handle[1].internal.Statements[1].kind = "Package"
    /\ Len(handle[1].internal.Statements[1].body) = 1
    /\ Len(handle[1].internal.Statements[1].body[1].elses) = 1

(***************************************************************************)
(* Sequence renderer (internal/renderer/svg/sequence.go): participant      *)
(* collection, the event timeline with its activation intervals, and the  *)
(* numbering of the messages.  Lengths are in pixels; the text height of  *)
(* the font is one fixed line height.                                      *)
(***************************************************************************)
seqParticipantPadY == 8
seqMessageSpacing == 40
seqFragmentPadding == 10
seqNotePadding == 8
seqTopMargin == 20
seqDividerHeight == 30
seqDelayHeight == 30
seqFragmentLabelH == 20

\* size.Height of font.MeasureText for one line of text.
lineHeight == 15

\* bottomY of a participant box: every box has y = seqTopMargin and the
\* height of one line of text plus the padding.
bottomY == seqTopMargin + lineHeight + seqParticipantPadY * 2

noteHeight == lineHeight + seqNotePadding * 2 + 10

RECURSIVE elseCount(_)
elseCount(eps) == IF eps = <<>> THEN 0 ELSE Len(Head(eps).body) + elseCount(Tail(eps))

fragmentHeight(f) ==
    LET count == Len(f.body) + elseCount(f.elses)
    IN seqFragmentLabelH + seqFragmentPadding + Len(f.elses) * seqFragmentLabelH
       + (IF count = 0 THEN 1 ELSE count) * seqMessageSpacing + seqFragmentPadding

\* The height of the event of statement s; <<>> for a statement that gets
\* no event.
eventHeight(s) ==
    CASE s.kind = "Message" -> <<seqMessageSpacing>>
      [] s.kind = "Note" -> <<noteHeight>>
      [] s.kind = "Fragment" -> <<fragmentHeight(s)>>
      [] s.kind = "Divider" -> <<seqDividerHeight>>
      [] s.kind = "Delay" -> <<seqDelayHeight>>
      [] s.kind = "Autonumber" -> <<0>>
      [] OTHER -> <<>>

\* activeStarts is a map from target to start y, kept as a set of entries
\* with one entry per target.
lookup(activeStarts, target) == {e \in activeStarts : e.name = target}

\* activeStarts[s.Target] = curY
put(activeStarts, target, y) ==
    (activeStarts \ lookup(activeStarts, target)) \cup {[name |-> target, startY |-> y]}

activationRange(participant, startY, endY) ==
    [participant |-> participant, startY |-> startY, endY |-> endY]

\* The orders in which `range activeStarts` can visit the entries.
rangeOrders(activeStarts) ==
    {o \in SeqsUpTo(activeStarts, Cardinality(activeStarts)) :
        {o[i] : i \in 1..Len(o)} = activeStarts}

\* atoiSimple: 0 at the first character that is not a digit.
atoiSimple(str) ==
    LET n == atoiLoop(runes(str), 0)
    IN IF n = <<>> THEN 0 ELSE n[1]

\* Render up to layoutEvents: no participant, renderEmpty; else the cursor
\* starts below the participant boxes.
SequenceRenderStart ==
    /\ sq.pc = "Render"
    /\ \E ps \in {collectParticipants(sq.d)} :
          sq' = [sq EXCEPT !.participants = ps,
                           !.pc = IF ps = <<>> THEN "renderEmpty" ELSE "layoutEvents",
                           !.curY = bottomY + seqMessageSpacing]
    /\ UNCHANGED <<pvars, codec, lay, res, srv, cli, font, cr, cls>>

\* layoutEvents: one iteration of `for _, stmt := range diagram.Statements`.
layoutEvents ==
    /\ sq.pc = "layoutEvents"
    /\ sq.i <= Len(sq.d.Statements)
    /\ \E s \in {sq.d.Statements[sq.i]} : \E h \in {eventHeight(s)} :
         IF h # <<>>
         THEN sq' = [sq EXCEPT !.events = Append(@, [y |-> sq.curY, height |-> h[1], stmt |-> s]),
                               !.curY = @ + h[1],
                               !.i = @ + 1]
         ELSE IF s.kind = "Activate" /\ s.flag
         THEN \E open \in {lookup(sq.activeStarts, s.name)} :
                IF open # {}
                THEN sq' = [sq EXCEPT
                              !.activations = Append(@, activationRange(s.name,
                                                  (CHOOSE e \in open : TRUE).startY, sq.curY)),
                              !.activeStarts = @ \ open,
                              !.i = @ + 1]
                ELSE sq' = [sq EXCEPT !.i = @ + 1]
         ELSE IF s.kind = "Activate"
         THEN sq' = [sq EXCEPT !.activeStarts = put(@, s.name, sq.curY),
                               !.i = @ + 1]
         ELSE sq' = [sq EXCEPT !.i = @ + 1]
    /\ UNCHANGED <<pvars, codec, lay, res, srv, cli, font, cr, cls>>

\* layoutEvents after its loop: `for name, startY := range activeStarts`
\* closes what is still open, in the order the map is iterated.
layoutEventsReturn ==
    /\ sq.pc = "layoutEvents"
    /\ sq.i > Len(sq.d.Statements)
    /\ \E o \in rangeOrders(sq.activeStarts) :
         sq' = [sq EXCEPT
                  !.activations = @ \o [i \in 1..Len(o) |->
                                           activationRange(o[i].name, o[i].startY, sq.curY)],
                  !.pc = "renderEvents"]
    /\ UNCHANGED <<pvars, codec, lay, res, srv, cli, font, cr, cls>>

\* pmap: the participants by name.
pmap == seen(sq.participants)

\* A mutation of nextMsgNum: every message counts, numbered or not.
nextMsgNumAlways(autonumber, msgNum) == msgNum + 1

\* if autonumber { msgNum++ }
nextMsgNum(autonumber, msgNum) == IF autonumber THEN msgNum + 1 ELSE msgNum

\* Render, one iteration of `for _, ev := range events`; renderMessage draws
\* nothing for a message with an end that has no box, and prefixes the label
\* with the number num when autonumber is on and the number is positive.
renderEvent ==
    /\ sq.pc = "renderEvents"
    /\ sq.k <= Len(sq.events)
    /\ \E s \in {sq.events[sq.k].stmt} :
         CASE s.kind = "Message" ->
                \E n \in {nextMsgNum(sq.autonumber, sq.msgNum)} :
                   sq' = [sq EXCEPT
                            !.msgNum = n,
                            !.drawn = IF s.name \in pmap /\ s.to \in pmap
                                      THEN Append(@, [line |-> s.line,
                                                      y |-> sq.events[sq.k].y,
                                                      numbered |-> sq.autonumber /\ n > 0,
                                                      num |-> n])
                                      ELSE @,
                            !.k = @ + 1]
           [] s.kind = "Autonumber" ->
                sq' = [sq EXCEPT !.autonumber = TRUE,
                                 !.msgNum = IF s.name # "" THEN atoiSimple(s.name) - 1 ELSE @,
                                 !.k = @ + 1]
           [] OTHER -> sq' = [sq EXCEPT !.k = @ + 1]
    /\ UNCHANGED <<pvars, codec, lay, res, srv, cli, font, cr, cls>>

\* Render after the events: the bottom boxes, and the SVG is written.
SequenceRenderReturn ==
    /\ sq.pc = "renderEvents"
    /\ sq.k > Len(sq.events)
    /\ sq' = [sq EXCEPT !.pc = "done"]
    /\ UNCHANGED <<pvars, codec, lay, res, srv, cli, font, cr, cls>>

(***************************************************************************)
(* Sequence renderer specification: Render on every diagram of at most    *)
(* MaxStatements top-level statements drawn from StatementTemplates        *)
(***************************************************************************)
MaxStatements == 3

\* The statements the parser builds for `participant A`, `actor B`,
\* `A -> B`, `C --> A`, `activate A`, `deactivate A`, `activate B`,
\* `autonumber`, `autonumber 12`, `autonumber 0`, `== x ==` and
\* `alt / A -> B / else / B -> C / end`, at line n.
StatementTemplates(n) ==
    LET at == [line |-> n]
    IN { Stmt("Participant", at, "A", "", "Participant", FALSE),
         Stmt("Participant", at, "B", "", "Actor", FALSE),
         Stmt("Message", at, "A", "B", "->", FALSE),
         Stmt("Message", at, "C", "A", "-->", TRUE),
         Stmt("Activate", at, "A", "", "", FALSE),
         Stmt("Activate", at, "A", "", "", TRUE),
         Stmt("Activate", at, "B", "", "", FALSE),
         Stmt("Autonumber", at, "", "", "", FALSE),
         Stmt("Autonumber", at, "12", "", "", FALSE),
         Stmt("Autonumber", at, "0", "", "", FALSE),
         Stmt("Divider", at, "", "", "", FALSE),
         [Stmt("Fragment", at, "", "", "Alt", FALSE) EXCEPT
             !.body = <<Stmt("Message", [line |-> n + 1], "A", "B", "->", FALSE)>>,
             !.elses = <<[line |-> n + 2,
                          body |-> <<Stmt("Message", [line |-> n + 3], "B", "C", "->", FALSE)>>]>>] }

\* The statement lists of length at most n, statement i being at line 5 * i.
RECURSIVE StatementLists(_)
StatementLists(n) ==
    IF n = 0 THEN {<<>>}
    ELSE LET shorter == StatementLists(n - 1)
         IN shorter \cup {Append(l, x) : l \in {t \in shorter : Len(t) = n - 1},
                                         x \in StatementTemplates(5 * n)}

InitSequence ==
    /\ \E stmts \in StatementLists(MaxStatements) :
         sq = [pc |-> "Render", d |-> [Statements |-> stmts], participants |-> <<>>,
               i |-> 1, curY |-> 0, events |-> <<>>, activations |-> <<>>,
               activeStarts |-> {}, k |-> 1, msgNum |-> 0, autonumber |-> FALSE,
               drawn |-> <<>>]
    /\ ParserIdle /\ codec = Idle /\ lay = Idle /\ res = Idle
    /\ srv = Idle /\ cli = Idle /\ font = Idle /\ cr = Idle /\ cls = Idle

NextSequence ==
    \/ SequenceRenderStart
    \/ layoutEvents
    \/ layoutEventsReturn
    \/ renderEvent
    \/ SequenceRenderReturn

SpecSequence == InitSequence /\ [][NextSequence]_vars

(***************************************************************************)
(* Properties of the sequence renderer                                     *)
(***************************************************************************)
\* layoutEvents has returned.
TimelineDone == sq.pc \in {"renderEvents", "done"}

\* The statements of a statement list in document order, the bodies and
\* else-parts of the fragments included.
RECURSIVE DocumentOrder(_)
DocumentOrder(stmts) ==
    IF stmts = <<>> THEN <<>>
    ELSE LET s == Head(stmts)
         IN <<s>>
            \o (IF s.kind = "Fragment"
                THEN DocumentOrder(s.body \o Flatten([i \in 1..Len(s.elses) |-> s.elses[i].body]))
                ELSE <<>>)
            \o DocumentOrder(Tail(stmts))

\* C21 as claimed: the event timeline follows document order into fragment
\* bodies and else-parts: every Message of the diagram, nested ones
\* included, has exactly one event, the events are in document order, and
\* their y positions never decrease.
C21_TimelineVisitsNested ==
    TimelineDone =>
        LET all == DocumentOrder(sq.d.Statements)
        IN /\ \A j \in 1..Len(all) :
                all[j].kind = "Message" =>
                    Cardinality({e \in 1..Len(sq.events) : sq.events[e].stmt = all[j]}) = 1
           /\ \A a, b \in 1..Len(sq.events) :
                a < b => /\ sq.events[a].stmt.line < sq.events[b].stmt.line
                         /\ sq.events[a].y <= sq.events[b].y

\* The ends of every Message of a statement list that are not known yet, in
\* order of first use, the messages inside fragments included.
RECURSIVE EveryMessageEndpoint(_, _)
EveryMessageEndpoint(stmts, result) ==
    IF stmts = <<>> THEN result
    ELSE LET s == Head(stmts)
         IN EveryMessageEndpoint(Tail(stmts),
                IF s.kind = "Message" /\ s.name # "" /\ s.name \notin seen(result)
                THEN Append(result, [name |-> s.name, kind |-> "Participant"])
                ELSE result)

\* The declared participants of a statement list, in order, without
\* repeated names.
RECURSIVE DeclaredOnce(_, _)
DeclaredOnce(stmts, result) ==
    IF stmts = <<>> THEN result
    ELSE LET s == Head(stmts)
         IN DeclaredOnce(Tail(stmts),
                IF s.kind = "Participant" /\ s.name \notin seen(result)
                THEN Append(result, [name |-> s.name, kind |-> s.arrow])
                ELSE result)

\* A message as its two ends, each a message from that end.
Ends(stmts) ==
    Flatten([i \in 1..Len(stmts) |->
        IF stmts[i].kind = "Message"
        THEN <<stmts[i], [stmts[i] EXCEPT !.name = stmts[i].to]>>
        ELSE <<stmts[i]>>])

\* C22 as claimed: the participant list is the declared participants in
\* source order without repeated names, followed by every name that occurs
\* as an end of a Message (inside a fragment or not) and is not known yet,
\* in order of first use, as a participant of the default kind.
C22_ParticipantList ==
    sq.pc # "Render" =>
        sq.participants =
            EveryMessageEndpoint(Ends(DocumentOrder(sq.d.Statements)),
                                 DeclaredOnce(sq.d.Statements, <<>>))

\* The same list with the messages of the top-level statement list only.
C22_TopLevelOnly ==
    sq.pc # "Render" =>
        sq.participants =
            EveryMessageEndpoint(Ends(sq.d.Statements), DeclaredOnce(sq.d.Statements, <<>>))

\* The cursor of layoutEvents when it reaches statement i of the diagram
\* (i = Len + 1: the final cursor).
RECURSIVE CursorAt(_)
CursorAt(i) ==
    IF i = 1 THEN bottomY + seqMessageSpacing
    ELSE LET h == eventHeight(sq.d.Statements[i - 1])
         IN CursorAt(i - 1) + (IF h = <<>> THEN 0 ELSE h[1])

FinalCursor == CursorAt(Len(sq.d.Statements) + 1)

\* The Activate statements of the diagram that open an interval.
Activates ==
    {i \in 1..Len(sq.d.Statements) :
        sq.d.Statements[i].kind = "Activate" /\ ~sq.d.Statements[i].flag}

\* The cursor positions at which the interval opened by statement i may be
\* closed: a later Deactivate of its target, or the final cursor if there is
\* none.
ClosingCursors(i) ==
    LET later == {j \in (i + 1)..Len(sq.d.Statements) :
                     /\ sq.d.Statements[j].kind = "Activate" /\ sq.d.Statements[j].flag
                     /\ sq.d.Statements[j].name = sq.d.Statements[i].name}
    IN IF later = {} THEN {FinalCursor} ELSE {CursorAt(j) : j \in later}

\* C23 as claimed: every Activate opens an interval for its target at the
\* cursor it is met at, every opened interval is closed exactly once, at a
\* following Deactivate of the target or else at the final cursor, none is
\* lost, and no interval ends before it starts.
C23_ActivationIntervals ==
    TimelineDone =>
        /\ Len(sq.activations) = Cardinality(Activates)
        /\ \A i \in Activates :
             \E a \in 1..Len(sq.activations) :
                /\ sq.activations[a].participant = sq.d.Statements[i].name
                /\ sq.activations[a].startY = CursorAt(i)
                /\ sq.activations[a].endY \in ClosingCursors(i)
        /\ \A a \in 1..Len(sq.activations) :
             sq.activations[a].endY >= sq.activations[a].startY

\* The Autonumber statements before statement i of the diagram, and those
\* of them that carry a start value.
AutonumbersBefore(i) ==
    {j \in 1..(i - 1) : sq.d.Statements[j].kind = "Autonumber"}

SeededBefore(i) == {j \in AutonumbersBefore(i) : sq.d.Statements[j].name # ""}

\* The number of the Message that is statement i: the last start value given
\* before it (1 if there is none) for the first Message after that
\* Autonumber, one more for each Message that follows.
ExpectedNumber(i) ==
    LET from == IF SeededBefore(i) = {}
                THEN CHOOSE j \in AutonumbersBefore(i) : \A l \in AutonumbersBefore(i) : j <= l
                ELSE CHOOSE j \in SeededBefore(i) : \A l \in SeededBefore(i) : j >= l
        first == IF SeededBefore(i) = {} THEN 1 ELSE atoiSimple(sq.d.Statements[from].name)
    IN first + Cardinality({j \in (from + 1)..(i - 1) : sq.d.Statements[j].kind = "Message"})

\* The top-level statement a drawn message was drawn for.
StatementOf(m) == CHOOSE i \in 1..Len(sq.d.Statements) : sq.d.Statements[i].line = m.line

C24_WitnessZero ==
    /\ sq.pc = "done"
    /\ Len(sq.drawn) = 2
    /\ ~sq.drawn[1].numbered /\ sq.drawn[1].num = 0
    /\ sq.drawn[2].numbered /\ sq.drawn[2].num = 1

(***************************************************************************)
(* Layout of graphs with long edges: four nodes A, B, C, D and at most     *)
(* MaxLongEdges edges among the forward arcs and the back arc D -> A       *)
(***************************************************************************)
MaxLongEdges == 4

LongNodeIds == <<"A", "B", "C", "D">>

LongEdgeChoices ==
    {[from |-> p[1], to |-> p[2], reversed |-> FALSE] :
        p \in {<<"A", "B">>, <<"A", "C">>, <<"A", "D">>, <<"B", "C">>,
               <<"B", "D">>, <<"C", "D">>, <<"D", "A">>}}

InitLayoutLong ==
    /\ ParserIdle /\ codec = Idle /\ res = Idle /\ OthersIdle
    /\ \E n \in {0, 4}, es \in SeqsUpTo(LongEdgeChoices, MaxLongEdges) :
         lay = [pc |-> "start",
                nodes |-> [i \in 1..n |-> [id |-> LongNodeIds[i], w |-> 100, h |-> 50,
                                           virtual |-> FALSE, x |-> 0, y |-> 0,
                                           layer |-> 0, order |-> 0]],
                edges |-> es,
                input |-> es,
                count |-> n,
                opts |-> DefaultOptions,
                adj |-> <<>>, color |-> <<>>, reversed |-> {}, dfs |-> <<>>,
                layers |-> <<>>, inDeg |-> <<>>, queue |-> <<>>, buckets |-> <<>>]

SpecLayoutLong == InitLayoutLong /\ [][NextLayout]_vars

\* The arcs of an adjacency, one <<u, j>> for the j-th arc of u.
ArcSlots(adj) == UNION {{<<u, j>> : j \in 1..Len(adj[u])} : u \in 1..Len(adj)}

\* The layers an arc of the adjacency that is handed to insertVirtualNodes
\* skips.
Skipped(s) == Max(lay.layers[lay.adj[s[1]][s[2]]] - lay.layers[s[1]] - 1, 0)

RECURSIVE SkippedBy(_)
SkippedBy(S) ==
    IF S = {} THEN 0
    ELSE LET x == CHOOSE y \in S : TRUE IN Skipped(x) + SkippedBy(S \ {x})

\* insertVirtualNodes has run.
VirtualNodesInserted == lay.pc \in {"minimizeCrossings", "assignCoordinates", "done"} /\ lay.nodes # <<>>

\* C27: after virtual-node insertion every arc of the working adjacency goes
\* from a layer L to the layer L + 1; the step adds one virtual node of
\* width 0 and height 0 for each layer an arc skipped, each on a chain (one
\* arc in, one arc out), and leaves the nodes it was given and their layers
\* as they were.
C27_UnitSpanArcs ==
    /\ [](VirtualNodesInserted =>
            \A u \in 1..Len(lay.adj) : \A j \in 1..Len(lay.adj[u]) :
                lay.layers[lay.adj[u][j]] = lay.layers[u] + 1)
    /\ [][lay.pc = "insertVirtualNodes" =>
            /\ Len(lay'.nodes) = Len(lay.nodes) + SkippedBy(ArcSlots(lay.adj))
            /\ Len(lay'.layers) = Len(lay'.nodes) /\ Len(lay'.adj) = Len(lay'.nodes)
            /\ SubSeq(lay'.nodes, 1, Len(lay.nodes)) = lay.nodes
            /\ SubSeq(lay'.layers, 1, Len(lay.layers)) = lay.layers
            /\ \A v \in (Len(lay.nodes) + 1)..Len(lay'.nodes) :
                 /\ lay'.nodes[v].virtual
                 /\ lay'.nodes[v].w = 0 /\ lay'.nodes[v].h = 0
                 /\ lay'.nodes[v].layer = lay'.layers[v]
                 /\ Len(lay'.adj[v]) = 1
                 /\ Cardinality({s \in ArcSlots(lay'.adj) : lay'.adj[s[1]][s[2]] = v}) = 1]_vars

\* A -> B, B -> C, C -> D, A -> D: the arc A -> D skips two layers and is
\* replaced by a chain through two virtual nodes.
C27_Witness ==
    /\ lay.pc = "minimizeCrossings"
    /\ lay.count = 4 /\ Len(lay.nodes) = 6
    /\ lay.layers = <<0, 1, 2, 3, 1, 2>>
    /\ lay.adj[5] = <<6>> /\ lay.adj[6] = <<4>>

(***************************************************************************)
(* The standalone layout packages: layering.Assign, crossing.Count,        *)
(* crossing.Minimize and coordinate.Assign                                 *)
(***************************************************************************)
\* layering.Assign, the queue it starts from: the sources, or node 0 when
\* there is none and the graph has a node.
layeringQueue(inDeg, n) ==
    LET q == indicesFrom([i \in 1..n |-> inDeg[i] = 0], 1, n)
    IN IF q = <<>> /\ n > 0 THEN <<1>> ELSE q

\* layering.Assign, `for len(queue) > 0`.
RECURSIVE layeringLoop(_, _, _, _)
layeringLoop(layers, inDeg, queue, adj) ==
    IF queue = <<>> THEN layers
    ELSE CHOOSE l \in {layeringLoop(r.layers, r.inDeg, r.queue, adj) :
                          r \in {relax(layers, inDeg, Tail(queue), Head(queue),
                                       adj[Head(queue)])}} : TRUE

\* layering.Assign: longest-path layers of the n nodes of adj.
layeringAssign(adj, n) ==
    layeringLoop([i \in 1..n |-> 0], inDegrees(adj), layeringQueue(inDegrees(adj), n), adj)

\* crossing.buildReverse: arcs to a node beyond n are left out.
RECURSIVE buildReverse(_, _, _, _, _)
buildReverse(radj, adj, n, u, j) ==
    IF u > Len(adj) THEN radj
    ELSE IF j > Len(adj[u]) THEN buildReverse(radj, adj, n, u + 1, 1)
    ELSE buildReverse(IF adj[u][j] <= n THEN [radj EXCEPT ![adj[u][j]] = Append(@, u)]
                      ELSE radj, adj, n, u, j + 1)

\* A mutation of reorder: the layer is returned as it is.
reorderKeepsOrder(layer, fixedLayer, connections) == layer

\* crossing.reorder: a node beyond the connections has no neighbour.
reorder(layer, fixedLayer, connections) ==
    CHOOSE r \in
        {[i \in 1..Len(layer) |-> sorted[i].node] :
            sorted \in {insertionSort(entries, 2) :
                entries \in {[i \in 1..Len(layer) |->
                                IF layer[i] <= Len(connections)
                                THEN barycenter(layer[i], i - 1, fixedLayer, connections)
                                ELSE [node |-> layer[i], num |-> i - 1, den |-> 1]]}}} : TRUE

\* crossing.Minimize, one down sweep and one up sweep over result.
RECURSIVE sweepDown(_, _, _)
sweepDown(result, radj, i) ==
    IF i >= Len(result) THEN result
    ELSE CHOOSE r \in {sweepDown(nr, radj, i + 1) :
                          nr \in {[result EXCEPT ![i + 1] = reorder(result[i + 1], result[i], radj)]}} : TRUE

RECURSIVE sweepUp(_, _, _)
sweepUp(result, adj, i) ==
    IF i <= 1 THEN result
    ELSE CHOOSE r \in {sweepUp(nr, adj, i - 1) :
                          nr \in {[result EXCEPT ![i - 1] = reorder(result[i - 1], result[i], adj)]}} : TRUE

\* crossing.Minimize, pass `pass` (0 to 3) on result.
minimizePass(result, adj, radj, pass) ==
    IF pass % 2 = 0 THEN sweepDown(result, radj, 1) ELSE sweepUp(result, adj, Len(result))

\* crossing.Minimize: four passes over a copy of the layers.
crossingMinimize(layers, adj, n) ==
    CHOOSE r \in
        UNION {{minimizePass(p2, adj, radj, 3) :
                   p2 \in {minimizePass(p1, adj, radj, 2) :
                      p1 \in {minimizePass(p0, adj, radj, 1) :
                         p0 \in {minimizePass(layers, adj, radj, 0)}}}} :
                radj \in {buildReverse([i \in 1..n |-> <<>>], adj, n, 1, 1)}} : TRUE

\* crossing.Count, the edges as (upper position, lower position) pairs in
\* the order they are collected; adj[node] of a node without an entry is
\* empty.
countEdges(upper, lower, adj) ==
    Flatten([i \in 1..Len(upper) |->
        IF upper[i] \in DOMAIN adj
        THEN Flatten([k \in 1..Len(adj[upper[i]]) |->
                 IF posIn(lower, adj[upper[i]][k]) >= 0
                 THEN <<[u |-> i - 1, v |-> posIn(lower, adj[upper[i]][k])]>>
                 ELSE <<>>])
        ELSE <<>>])

\* crossing.Count: the inversions among the edges of two adjacent layers.
crossingCount(upper, lower, adj) ==
    LET edges == countEdges(upper, lower, adj)
    IN Cardinality({p \in (1..Len(edges)) \X (1..Len(edges)) :
            /\ p[1] < p[2]
            /\ \/ edges[p[1]].u < edges[p[2]].u /\ edges[p[1]].v > edges[p[2]].v
               \/ edges[p[1]].u > edges[p[2]].u /\ edges[p[1]].v < edges[p[2]].v})

\* coordinate.Assign, first pass over one layer: positions and the x reached.
RECURSIVE assignLayer(_, _, _, _, _, _)
assignLayer(positions, layer, sizes, x, y, nodePadding) ==
    IF layer = <<>> THEN positions
    ELSE assignLayer([positions EXCEPT ![Head(layer)] = [X |-> x, Y |-> y]], Tail(layer),
                     sizes, x + sizes[Head(layer)].Width + nodePadding, y, nodePadding)

RECURSIVE layerMaxHeight(_, _)
layerMaxHeight(layer, sizes) ==
    IF layer = <<>> THEN 0
    ELSE Max(sizes[Head(layer)].Height, layerMaxHeight(Tail(layer), sizes))

RECURSIVE assignLayersTopDown(_, _, _, _, _, _, _)
assignLayersTopDown(positions, layers, l, sizes, y, nodePadding, layerSpacing) ==
    IF l > Len(layers) THEN positions
    ELSE assignLayersTopDown(assignLayer(positions, layers[l], sizes, 0, y, nodePadding),
                             layers, l + 1, sizes,
                             y + layerMaxHeight(layers[l], sizes) + layerSpacing,
                             nodePadding, layerSpacing)

RECURSIVE sizesWidth(_, _)
sizesWidth(sizes, layer) ==
    IF layer = <<>> THEN 0 ELSE sizes[Head(layer)].Width + sizesWidth(sizes, Tail(layer))

\* coordinate.layerWidth
coordinateLayerWidth(sizes, layer, padding) ==
    IF layer = <<>> THEN 0 ELSE sizesWidth(sizes, layer) + padding * (Len(layer) - 1)

\* coordinate.Assign: left to right and top to bottom, then every layer is
\* centred on the widest one (the widths of this model differ by even
\* numbers, so the halves are whole).
coordinateAssign(layers, sizes, nodePadding, layerSpacing) ==
    LET first == assignLayersTopDown([i \in 1..Len(sizes) |-> [X |-> 0, Y |-> 0]], layers, 1,
                                     sizes, 0, nodePadding, layerSpacing)
        maxWidth == maxOf([l \in 1..Len(layers) |->
                              coordinateLayerWidth(sizes, layers[l], nodePadding)])
        offsetOf(i) ==
            LET ls == {l \in 1..Len(layers) : posIn(layers[l], i) >= 0}
            IN IF ls = {} THEN 0
               ELSE (maxWidth - coordinateLayerWidth(sizes, layers[CHOOSE l \in ls : TRUE],
                                                    nodePadding)) \div 2
    IN [i \in 1..Len(sizes) |-> [first[i] EXCEPT !.X = @ + offsetOf(i)]]

\* The sizes of the nodes of the graph Layout works on.
NodeSizes == [i \in 1..Len(lay.nodes) |-> [Width |-> lay.nodes[i].w, Height |-> lay.nodes[i].h]]

MaxArcs == 5
LayerShapes == {<<2, 2>>, <<3, 3>>, <<2, 3, 2>>}

\* The first node of layer l of a graph with the layer widths `shape`.
RECURSIVE firstNode(_, _)
firstNode(shape, l) == IF l = 1 THEN 1 ELSE firstNode(shape, l - 1) + shape[l - 1]

\* The nodes first..first+width-1 in ascending order.
NodeRun(first, width) == [i \in 1..width |-> first + i - 1]

\* The layers of a graph with the layer widths `shape`, in node order.
ShapeLayers(shape) == [l \in 1..Len(shape) |-> NodeRun(firstNode(shape, l), shape[l])]

\* The arcs a layered graph may have: from a node to a node of the next layer.
LayerArcs(layers) ==
    UNION {{<<layers[l][i], layers[l + 1][j]>> :
               i \in 1..Len(layers[l]), j \in 1..Len(layers[l + 1])} :
           l \in 1..(Len(layers) - 1)}

\* The adjacency list of n nodes with the arcs of the set `arcs`, every list
\* in ascending order.
AdjOf(arcs, n) == [u \in 1..n |-> indicesFrom([v \in 1..n |-> <<u, v>> \in arcs], 1, n)]

\* The layered graphs Minimize is called on: the layers of a shape with up
\* to MaxArcs arcs from a layer to the next one.
LayeredGraphs ==
    UNION {{[layers |-> ShapeLayers(shape), n |-> firstNode(shape, Len(shape) + 1) - 1,
             adj |-> AdjOf(arcs, firstNode(shape, Len(shape) + 1) - 1)] :
               arcs \in {A \in SUBSET LayerArcs(ShapeLayers(shape)) : Cardinality(A) <= MaxArcs}} :
           shape \in LayerShapes}

\* Minimize: radj := buildReverse(adj, n); result := a copy of layers.
MinimizeStart ==
    /\ cr.pc = "Minimize"
    /\ \E radj \in {buildReverse([i \in 1..cr.n |-> <<>>], cr.adj, cr.n, 1, 1)} :
         cr' = [cr EXCEPT !.pc = "pass", !.radj = radj, !.result = cr.layers,
                          !.pass = 0, !.i = 0]
    /\ UNCHANGED <<pvars, codec, lay, res, srv, cli, font, sq, cls>>

\* Minimize, one iteration of the inner loop of a pass: a down sweep reorders
\* result[i+1] against result[i] by radj, an up sweep result[i-1] against
\* result[i] by adj; the pass ends when i leaves the range.
MinimizeStep ==
    /\ cr.pc = "pass" /\ cr.pass < 4
    /\ IF cr.pass % 2 = 0
       THEN IF cr.i < Len(cr.result) - 1
            THEN \E r \in {reorder(cr.result[cr.i + 2], cr.result[cr.i + 1], cr.radj)} :
                    cr' = [cr EXCEPT !.result[cr.i + 2] = r, !.i = cr.i + 1]
            ELSE cr' = [cr EXCEPT !.pass = cr.pass + 1, !.i = Len(cr.result) - 1]
       ELSE IF cr.i > 0
            THEN \E r \in {reorder(cr.result[cr.i], cr.result[cr.i + 1], cr.adj)} :
                    cr' = [cr EXCEPT !.result[cr.i] = r, !.i = cr.i - 1]
            ELSE cr' = [cr EXCEPT !.pass = cr.pass + 1, !.i = 0]
    /\ UNCHANGED <<pvars, codec, lay, res, srv, cli, font, sq, cls>>

\* Minimize: return result.
MinimizeReturn ==
    /\ cr.pc = "pass" /\ cr.pass = 4
    /\ cr' = [cr EXCEPT !.pc = "done"]
    /\ UNCHANGED <<pvars, codec, lay, res, srv, cli, font, sq, cls>>

InitCrossing ==
    /\ \E g \in LayeredGraphs :
         cr = [pc |-> "Minimize", layers |-> g.layers, adj |-> g.adj, n |-> g.n,
               radj |-> <<>>, result |-> <<>>, pass |-> 0, i |-> 0]
    /\ ParserIdle /\ codec = Idle /\ lay = Idle /\ res = Idle
    /\ srv = Idle /\ cli = Idle /\ font = Idle /\ sq = Idle /\ cls = Idle

NextCrossing == MinimizeStart \/ MinimizeStep \/ MinimizeReturn

SpecCrossing == InitCrossing /\ [][NextCrossing]_vars

\* The crossings of the orders `orders`, summed over the adjacent layers, as
\* Count counts them with the arcs of cr.adj.
RECURSIVE crossingsFrom(_, _)
crossingsFrom(orders, l) ==
    IF l >= Len(orders) THEN 0
    ELSE crossingCount(orders[l], orders[l + 1], cr.adj) + crossingsFrom(orders, l + 1)

Crossings(orders) == crossingsFrom(orders, 1)

\* C30: the orders Minimize returns have no more crossings between adjacent
\* layers, as Count counts them, than the orders it was given.
C30_NoMoreCrossings ==
    cr.pc = "done" => Crossings(cr.result) <= Crossings(cr.layers)

\* Minimize returned orders with fewer crossings than the orders it got.
MinimizeReduced ==
    cr.pc = "done" /\ Crossings(cr.result) < Crossings(cr.layers)

\* Three layers [0 1] [2 3 4] [5 6] with the arcs 0->2, 0->3, 1->4, 2->5 and
\* 4->5 have no crossing; Minimize returns the middle layer as [2 4 3],
\* where 0->3 crosses 1->4.
MinimizeAddedCrossing ==
    /\ cr.pc = "done"
    /\ cr.layers = <<<<1, 2>>, <<3, 4, 5>>, <<6, 7>>>>
    /\ cr.adj = <<<<3, 4>>, <<5>>, <<6>>, <<>>, <<6>>, <<>>, <<>>>>
    /\ cr.result = <<<<1, 2>>, <<3, 5, 4>>, <<6, 7>>>>
    /\ Crossings(cr.layers) = 0 /\ Crossings(cr.result) = 1

\* The steps of Minimize compute what crossingMinimize computes.
MinimizeStepsAgree ==
    cr.pc = "done" => cr.result = crossingMinimize(cr.layers, cr.adj, cr.n)

(***************************************************************************)
(* Class renderer: boxes and layout nodes                                  *)
(***************************************************************************)
\* measureClass, measureInterface, measureEnum: the box of a declaration.
measureDecl(s) ==
    [id |-> s.name,
     kind |-> IF s.kind = "ClassDef" THEN "class"
              ELSE IF s.kind = "InterfaceDef" THEN "interface" ELSE "enum"]

\* measureImplicitClass: the empty class box of an undeclared endpoint.
measureImplicitClass(name) == [id |-> name, kind |-> "class"]

\* Render, case *ast.Relationship: an endpoint that is not empty and has no
\* entry in boxByName gets an implicit box; c holds boxes and the keys of
\* boxByName.
RECURSIVE implicitBoxes(_, _)
implicitBoxes(c, names) ==
    IF names = <<>> THEN c
    ELSE implicitBoxes(IF Head(names) \notin c.boxByName /\ Head(names) # ""
                       THEN [boxes |-> Append(c.boxes, measureImplicitClass(Head(names))),
                             boxByName |-> c.boxByName \cup {Head(names)}]
                       ELSE c,
                       Tail(names))

\* Render, case *ast.Package: every class, interface and enum among the
\* children gets a box, whatever boxByName holds.
RECURSIVE packageBoxes(_, _)
packageBoxes(c, children) ==
    IF children = <<>> THEN c
    ELSE packageBoxes(IF Head(children).kind \in {"ClassDef", "InterfaceDef", "EnumDef"}
                      THEN [boxes |-> Append(c.boxes, measureDecl(Head(children))),
                            boxByName |-> c.boxByName \cup {Head(children).name}]
                      ELSE c,
                      Tail(children))

\* Render, the body of the loop over diagram.Statements for one statement.
ClassRenderStatement ==
    /\ cls.pc = "Render" /\ cls.i <= Len(cls.d.Statements)
    /\ \E s \in {cls.d.Statements[cls.i]} :
       \E c \in {[boxes |-> cls.boxes, boxByName |-> cls.boxByName]} :
       \E nc \in {IF s.kind \in {"ClassDef", "InterfaceDef", "EnumDef"}
                  THEN [boxes |-> Append(c.boxes, measureDecl(s)),
                        boxByName |-> c.boxByName \cup {s.name}]
                  ELSE IF s.kind = "Relationship" THEN implicitBoxes(c, <<s.name, s.to>>)
                  ELSE IF s.kind = "Package" THEN packageBoxes(c, s.body)
                  ELSE c} :
          cls' = [cls EXCEPT !.i = cls.i + 1, !.boxes = nc.boxes, !.boxByName = nc.boxByName,
                             !.rels = IF s.kind = "Relationship" THEN Append(cls.rels, s)
                                      ELSE cls.rels]
    /\ UNCHANGED <<pvars, codec, lay, res, srv, cli, font, sq, cr>>

\* Render: no box, the empty diagram is written.
ClassRenderEmpty ==
    /\ cls.pc = "Render" /\ cls.i > Len(cls.d.Statements) /\ cls.boxes = <<>>
    /\ cls' = [cls EXCEPT !.pc = "done"]
    /\ UNCHANGED <<pvars, codec, lay, res, srv, cli, font, sq, cr>>

\* Render: one layout node per box and one edge per relationship with two
\* endpoints; Layout then indexes the nodes by id (buildNodeIndex).
ClassRenderGraph ==
    /\ cls.pc = "Render" /\ cls.i > Len(cls.d.Statements) /\ cls.boxes # <<>>
    /\ \E nodes \in {[k \in 1..Len(cls.boxes) |-> [id |-> cls.boxes[k].id]]} :
         cls' = [cls EXCEPT !.pc = "done", !.nodes = nodes,
                    !.edges = SelectSeq([k \in 1..Len(cls.rels) |->
                                            [from |-> cls.rels[k].name, to |-> cls.rels[k].to]],
                                        LAMBDA e : e.from # "" /\ e.to # ""),
                    !.nodeIndex = [id \in {nodes[k].id : k \in 1..Len(nodes)} |->
                                      buildNodeIndex(nodes, id)]]
    /\ UNCHANGED <<pvars, codec, lay, res, srv, cli, font, sq, cr>>

\* Most statements of a class diagram.
MaxClassStatements == 3

\* The statements of the class diagrams, at line n.
ClassStatementTemplates(n) ==
    LET at == [line |-> n]
    IN { Stmt("ClassDef", at, "A", "", "", FALSE),
         Stmt("InterfaceDef", at, "B", "", "", FALSE),
         Stmt("EnumDef", at, "C", "", "", FALSE),
         Stmt("Relationship", at, "A", "B", "-->", FALSE),
         Stmt("Relationship", at, "C", "", "--", FALSE),
         Stmt("Note", at, "A", "", "", FALSE),
         [Stmt("Package", at, "P", "", "", FALSE) EXCEPT
             !.body = <<Stmt("ClassDef", [line |-> n + 1], "A", "", "", FALSE),
                        Stmt("Relationship", [line |-> n + 2], "A", "C", "-->", FALSE)>>],
         [Stmt("Package", at, "Q", "", "", FALSE) EXCEPT
             !.body = <<Stmt("EnumDef", [line |-> n + 1], "C", "", "", FALSE)>>] }

\* The statement lists of length at most n, statement i being at line 5 * i.
RECURSIVE ClassStatementLists(_)
ClassStatementLists(n) ==
    IF n = 0 THEN {<<>>}
    ELSE LET shorter == ClassStatementLists(n - 1)
         IN shorter \cup {Append(l, x) : l \in {t \in shorter : Len(t) = n - 1},
                                         x \in ClassStatementTemplates(5 * n)}

InitClass ==
    /\ \E stmts \in ClassStatementLists(MaxClassStatements) :
         cls = [pc |-> "Render", d |-> [Statements |-> stmts], i |-> 1, boxes |-> <<>>,
                boxByName |-> {}, rels |-> <<>>, nodes |-> <<>>, edges |-> <<>>,
                nodeIndex |-> <<>>]
    /\ ParserIdle /\ codec = Idle /\ lay = Idle /\ res = Idle
    /\ srv = Idle /\ cli = Idle /\ font = Idle /\ sq = Idle /\ cr = Idle

NextClass == ClassRenderStatement \/ ClassRenderEmpty \/ ClassRenderGraph

SpecClass == InitClass /\ [][NextClass]_vars

\* The names declared as class, interface or enum at top level or directly
\* inside a package of the diagram.
DeclaredNames ==
    {cls.d.Statements[k].name :
        k \in {j \in 1..Len(cls.d.Statements) :
                  cls.d.Statements[j].kind \in {"ClassDef", "InterfaceDef", "EnumDef"}}}
    \cup UNION {{cls.d.Statements[k].body[j].name :
                    j \in {q \in 1..Len(cls.d.Statements[k].body) :
                              cls.d.Statements[k].body[q].kind
                                  \in {"ClassDef", "InterfaceDef", "EnumDef"}}} :
                k \in {j \in 1..Len(cls.d.Statements) : cls.d.Statements[j].kind = "Package"}}

\* The endpoints of the top-level relationships of the diagram.
EndpointNames ==
    UNION {{cls.d.Statements[k].name, cls.d.Statements[k].to} :
              k \in {j \in 1..Len(cls.d.Statements) :
                        cls.d.Statements[j].kind = "Relationship"}} \ {""}

\* The boxes, and the layout nodes, with the id `name`.
BoxesOf(name) == {k \in 1..Len(cls.boxes) : cls.boxes[k].id = name}
NodesOf(name) == {k \in 1..Len(cls.nodes) : cls.nodes[k].id = name}

\* C28: a name that is a relationship endpoint and is declared as a class,
\* interface or enum (before or after the relationship, at top level or in
\* a package) has one box and one layout node once the graph is built.
C28_OneBoxPerName ==
    (cls.pc = "done" /\ cls.boxes # <<>>) =>
        \A name \in DeclaredNames \cap EndpointNames :
            Cardinality(BoxesOf(name)) = 1 /\ Cardinality(NodesOf(name)) = 1

\* A relationship named A before `class A` was declared: A has the implicit
\* box and the declared one, and two layout nodes of which the index knows
\* the second.
TwoBoxesForOneName ==
    /\ cls.pc = "done"
    /\ cls.d.Statements = <<Stmt("Relationship", [line |-> 5], "A", "B", "-->", FALSE),
                            Stmt("ClassDef", [line |-> 10], "A", "", "", FALSE)>>
    /\ cls.boxes = <<[id |-> "A", kind |-> "class"], [id |-> "B", kind |-> "class"],
                     [id |-> "A", kind |-> "class"]>>
    /\ NodesOf("A") = {1, 3} /\ cls.nodeIndex["A"] = 3

\* With every declaration before the relationships that name it, and no name
\* declared twice, every name has one box and one node.
DeclaredFirstOneBox ==
    (/\ cls.pc = "done" /\ cls.boxes # <<>>
     /\ \A k \in 1..Len(cls.d.Statements) :
           LET s == cls.d.Statements[k]
               declsOf(t) == IF t.kind \in {"ClassDef", "InterfaceDef", "EnumDef"}
                             THEN <<t.name>>
                             ELSE IF t.kind = "Package"
                             THEN Flatten([q \in 1..Len(t.body) |->
                                     IF t.body[q].kind \in {"ClassDef", "InterfaceDef", "EnumDef"}
                                     THEN <<t.body[q].name>> ELSE <<>>])
                             ELSE <<>>
               before == Flatten([j \in 1..(k - 1) |-> declsOf(cls.d.Statements[j])])
               seenNames == {before[j] : j \in 1..Len(before)} \cup
                            UNION {{cls.d.Statements[j].name, cls.d.Statements[j].to} :
                                      j \in {q \in 1..(k - 1) :
                                                cls.d.Statements[q].kind = "Relationship"}}
               here == declsOf(s)
           IN \A j \in 1..Len(here) :
                 here[j] \notin seenNames /\ \A q \in 1..(j - 1) : here[q] # here[j])
    => \A name \in DeclaredNames \cup EndpointNames :
          Cardinality(BoxesOf(name)) = 1 /\ Cardinality(NodesOf(name)) = 1

====
